---- MODULE Spec2Model ----
(***************************************************************************)
(* Retail-Image-Recognition-POC: the compliance engine                     *)
(* (PlanogramService.check_compliance, _normalize_product_name) and the    *)
(* grid inference (detect_shelf_layout, /detect-grid) as state machines.   *)
(*                                                                         *)
(* Strings are sequences of one-character strings, so that lower(),        *)
(* strip() and replace() are computed character by character.              *)
(***************************************************************************)
EXTENDS Integers, Sequences, FiniteSets, TLC

VARIABLES
    planogram,          \* the Planogram loaded for the request
    detected_products,  \* the detection list handed to check_compliance
    result,             \* outcome of check_compliance: returned value or raised error
    impl,               \* which PlanogramService copy ran: "none", "legacy", "app"
    image,              \* the upload: its size and where line detection finds separators
    grid,               \* outcome of grid inference for the image
    endpoint,           \* which grid inference ran: "none", "analyze", "detect_grid", ...
    boxes,              \* the detector's boxes the handler has processed so far
    name_arg,           \* the argument of a call of _normalize_product_name
    name_result,        \* what that call returned
    storage,            \* the planogram's JSON file in the storage directory
    after_call,         \* the arguments of check_compliance as the call leaves them
    update,             \* an update_planogram call on the stored planogram
    request,            \* an /analyze request that names the stored planogram
    products_dir        \* the files of ProductService's storage directory

vars == <<planogram, detected_products, result, impl, image, grid, endpoint, boxes,
          name_arg, name_result, storage, after_call, update, request, products_dir>>

complianceVars == <<planogram, detected_products, result, impl>>
gridVars == <<image, grid, endpoint, boxes>>
normalizerVars == <<name_arg, name_result>>
storeVars == <<storage, after_call, update, request>>
productVars == <<products_dir>>

(***************************************************************************)
(* Python string operations                                                *)
(***************************************************************************)
UpperChars == <<"A","B","C","D","E","F","G","H","I","J","K","L","M",
                "N","O","P","Q","R","S","T","U","V","W","X","Y","Z">>
LowerChars == <<"a","b","c","d","e","f","g","h","i","j","k","l","m",
                "n","o","p","q","r","s","t","u","v","w","x","y","z">>
Whitespace == {" ", "\t", "\n"}

\* str.lower() on one character
LowerChar(c) ==
    IF \E i \in DOMAIN UpperChars : UpperChars[i] = c
    THEN LowerChars[CHOOSE i \in DOMAIN UpperChars : UpperChars[i] = c]
    ELSE c

\* str.lower()
lower(s) == [i \in 1..Len(s) |-> LowerChar(s[i])]

\* str.strip(): drop leading and trailing whitespace
strip(s) ==
    LET keep == {i \in 1..Len(s) : s[i] \notin Whitespace}
    IN  IF keep = {} THEN <<>>
        ELSE LET lo == CHOOSE i \in keep : \A j \in keep : i <= j
                 hi == CHOOSE i \in keep : \A j \in keep : j <= i
             IN  SubSeq(s, lo, hi)

\* str.replace(a, b) for single characters a and b
replace(s, a, b) == [i \in 1..Len(s) |-> IF s[i] = a THEN b ELSE s[i]]

(***************************************************************************)
(* String literals of the source and of the inputs                         *)
(***************************************************************************)
s_coca_cola   == <<"c","o","c","a"," ","c","o","l","a">>
s_coke        == <<"c","o","k","e">>
s_coca_dash   == <<"c","o","c","a","-","c","o","l","a">>
s_cocacola    == <<"c","o","c","a","c","o","l","a">>
s_empty       == <<"e","m","p","t","y">>
s_empty_shelf == <<"e","m","p","t","y","_","s","h","e","l","f">>
s_empty_space == <<"e","m","p","t","y","_","s","p","a","c","e">>
s_emptyspace  == <<"e","m","p","t","y","s","p","a","c","e">>
s_empty_shelf_sp == <<"e","m","p","t","y"," ","s","h","e","l","f">>
s_empty_space_sp == <<"e","m","p","t","y"," ","s","p","a","c","e">>

\* labels and product names used as inputs
L_CocaCola   == <<"C","o","c","a","-","C","o","l","a">>
L_Coke       == <<"C","o","k","e">>
L_Sprite     == <<"S","p","r","i","t","e">>
L_SPRITE     == <<"S","P","R","I","T","E">>
L_EmptyShelf == <<"E","m","p","t","y","_","S","h","e","l","f">>
L_EmptyShelfSp == <<"e","m","p","t","y"," ","s","h","e","l","f">>

(***************************************************************************)
(* PlanogramService._normalize_product_name                                *)
(***************************************************************************)
\* _normalize_product_name without .strip()
_normalize_product_name_no_strip(name) ==
    IF name = <<>> THEN s_empty
    ELSE LET normalized == replace(replace(lower(name), "-", " "), "_", " ")
         IN  IF normalized \in {s_coca_cola, s_coke, s_coca_dash, s_cocacola}
                THEN s_coca_cola
             ELSE IF normalized \in {s_empty_shelf_sp, s_empty_space_sp, s_empty, s_emptyspace}
                THEN s_empty
             ELSE normalized

_normalize_product_name(name) ==
    IF name = <<>> THEN s_empty
    ELSE LET normalized == replace(replace(strip(lower(name)), "-", " "), "_", " ")
         IN  IF normalized \in {s_coca_cola, s_coke, s_coca_dash, s_cocacola}
                THEN s_coca_cola
             ELSE IF normalized \in {s_empty_shelf_sp, s_empty_space_sp, s_empty, s_emptyspace}
                THEN s_empty
             ELSE normalized

\* the label test written inline in check_compliance
EmptyLabels == {s_empty_shelf, s_empty, s_empty_space, s_emptyspace}
is_empty_label(label) == lower(label) \in EmptyLabels

(***************************************************************************)
(* Input universes                                                         *)
(***************************************************************************)
MaxShelves    == 2   \* shelves per planogram
MaxDetections == 2   \* detections per request

Rows    == {0, 1}
Columns == {0}

SeqsUpTo(S, n) == UNION {[1..k -> S] : k \in 0..n}

\* (expected_product, allowed_variants) pairs offered to planogram sections
ProductChoices ==
    { <<L_CocaCola, <<L_SPRITE>>>>, <<s_empty_shelf, <<>>>> }

PlanogramSections ==
    { [column |-> c, expected_product |-> p[1], allowed_variants |-> p[2],
       min_quantity |-> 1, max_quantity |-> 1] : c \in Columns, p \in ProductChoices }

\* shelves of one section on either row, and a shelf without sections
PlanogramShelves ==
    { [row |-> r, sections |-> <<s>>] : r \in Rows, s \in PlanogramSections }
        \cup { [row |-> 0, sections |-> <<>>] }

PlanogramName == <<"P","1">>

Planograms ==
    { [id |-> <<"p","1">>, name |-> PlanogramName, shelves |-> sh] :
        sh \in SeqsUpTo(PlanogramShelves, MaxShelves) }

DetectionLabels == {L_Coke, L_Sprite, L_EmptyShelf, L_EmptyShelfSp}

\* detections as the /analyze handlers build them
WellFormedDetections ==
    { [label |-> l, row |-> r, column |-> 0, quantity |-> 1] :
        l \in {L_Coke, L_EmptyShelf}, r \in Rows }
    \cup { [label |-> l, row |-> 0, column |-> 0, quantity |-> 1] :
             l \in {L_Sprite, L_EmptyShelfSp} }

\* dictionaries a caller may pass that lack a key
MalformedDetections ==
    { [label |-> L_Sprite, column |-> 0, quantity |-> 1],
      [label |-> L_Sprite, row |-> 0, quantity |-> 1],
      [label |-> L_Coke, row |-> 0, column |-> 0] }

Detections == WellFormedDetections \cup MalformedDetections

DetectionLists == SeqsUpTo(Detections, MaxDetections)

MaxCandidates == 2   \* separator candidates found in arbitrary order
MaxLadder     == 8   \* separator candidates found at regular steps

\* (width, height) of uploads: very wide, wide, moderate, square, tall, and
\* a strip one pixel wide
OriginalSizes ==
    { <<1800, 600>>, <<750, 300>>, <<1200, 600>>, <<640, 480>>,
      <<650, 520>>, <<600, 600>>, <<100, 600>>, <<1, 1000>> }

\* where a contour centre can lie, in hundredths of the image side
Marks == {10, 16, 50, 90}

Ladder(k, step) == [i \in 1..k |-> i * step]
Ladders(step) == { Ladder(k, step) : k \in {n \in 1..MaxLadder : n * step < 100} }

ShelfMarkLists   == SeqsUpTo(Marks, MaxCandidates) \cup Ladders(15)
ProductMarkLists == SeqsUpTo(Marks, MaxCandidates) \cup Ladders(10)

(***************************************************************************)
(* PlanogramService.check_compliance (API For Image/planogram_service.py)  *)
(***************************************************************************)
NoError == [type |-> "none", key |-> ""]
KeyError(k) == [error |-> [type |-> "KeyError", key |-> k],
                product_grid |-> <<>>, empty_spaces |-> {}]
EmptyGrid == [error |-> NoError, product_grid |-> <<>>, empty_spaces |-> {}]

\* faulty variant: a missing 'column' is read as column 0
add_detection_default_column(built, product) ==
    IF "row" \notin DOMAIN product THEN KeyError("row")
    ELSE LET grid_key == <<product.row,
                           IF "column" \in DOMAIN product THEN product.column ELSE 0>> IN
         IF is_empty_label(product.label)
         THEN [built EXCEPT !.empty_spaces = @ \cup {grid_key}]
         ELSE IF "quantity" \notin DOMAIN product THEN KeyError("quantity")
         ELSE IF grid_key \in DOMAIN built.product_grid
         THEN [built EXCEPT !.product_grid[grid_key].quantity = @ + product.quantity]
         ELSE [built EXCEPT !.product_grid =
                   @ @@ (grid_key :> [product |-> product.label, quantity |-> product.quantity])]

\* faulty variant: the branch that creates a new grid entry is missing
add_detection_no_insert(built, product) ==
    IF "row" \notin DOMAIN product THEN KeyError("row")
    ELSE IF "column" \notin DOMAIN product THEN KeyError("column")
    ELSE LET grid_key == <<product.row, product.column>> IN
         IF is_empty_label(product.label)
         THEN [built EXCEPT !.empty_spaces = @ \cup {grid_key}]
         ELSE IF "quantity" \notin DOMAIN product THEN KeyError("quantity")
         ELSE IF grid_key \in DOMAIN built.product_grid
         THEN [built EXCEPT !.product_grid[grid_key].quantity = @ + product.quantity]
         ELSE built

\* body of the first loop: file one detection under product_grid or empty_spaces;
\* a missing dictionary key raises KeyError at the first subscript that needs it
add_detection(built, product) ==
    IF "row" \notin DOMAIN product THEN KeyError("row")
    ELSE IF "column" \notin DOMAIN product THEN KeyError("column")
    ELSE LET grid_key == <<product.row, product.column>> IN
         IF is_empty_label(product.label)
         THEN [built EXCEPT !.empty_spaces = @ \cup {grid_key}]
         ELSE IF "quantity" \notin DOMAIN product THEN KeyError("quantity")
         ELSE IF grid_key \in DOMAIN built.product_grid
         THEN [built EXCEPT !.product_grid[grid_key].quantity = @ + product.quantity]
         ELSE [built EXCEPT !.product_grid =
                   @ @@ (grid_key :> [product |-> product.label, quantity |-> product.quantity])]

\* first loop: partition the detections, stopping at the first exception
RECURSIVE build_product_grid(_, _, _)
build_product_grid(dets, i, built) ==
    IF i > Len(dets) \/ built.error # NoError THEN built
    ELSE build_product_grid(dets, i + 1, add_detection(built, dets[i]))

\* the (shelf.row, section) pairs in the order the nested loops visit them
RECURSIVE declared_sections(_)
declared_sections(shelves) ==
    IF shelves = <<>> THEN <<>>
    ELSE [k \in 1..Len(Head(shelves).sections) |->
              [row |-> Head(shelves).row, section |-> Head(shelves).sections[k]]]
         \o declared_sections(Tail(shelves))

\* faulty variant: compares case-insensitively only, without the normalizer
product_match_case_only(section, detected_product) ==
    \/ lower(detected_product) = lower(section.expected_product)
    \/ \E v \in DOMAIN section.allowed_variants :
          lower(section.allowed_variants[v]) = lower(detected_product)

\* product match of one section against the label stored for its cell
product_match(section, detected_product) ==
    LET expected_normalized == _normalize_product_name(section.expected_product)
        detected_normalized == _normalize_product_name(detected_product)
    IN  \/ detected_normalized = expected_normalized
        \/ \E v \in DOMAIN section.allowed_variants :
              _normalize_product_name(section.allowed_variants[v]) = detected_normalized

Issue(row, section, issue_type, found, severity) ==
    [row |-> row, column |-> section.column, issue_type |-> issue_type,
     expected |-> <<row, section.expected_product>>, found |-> found,
     severity |-> severity]

\* faulty variant: the product comparison runs before the empty-space test
check_section_product_first(row, section, product_grid, empty_spaces) ==
    LET grid_key == <<row, section.column>> IN
    IF grid_key \in DOMAIN product_grid /\ product_match(section, product_grid[grid_key].product)
    THEN [kind |-> "correct", issue |-> <<>>]
    ELSE IF grid_key \in empty_spaces
    THEN [kind |-> "out_of_stock",
          issue |-> Issue(row, section, "out_of_stock",
                          <<"empty space", section.expected_product>>, "high")]
    ELSE IF grid_key \notin DOMAIN product_grid
    THEN [kind |-> "undetected",
          issue |-> Issue(row, section, "undetected",
                          <<"no product", section.expected_product>>, "high")]
    ELSE [kind |-> "wrong_product",
          issue |-> Issue(row, section, "wrong_product",
                          <<product_grid[grid_key].product, section.expected_product>>, "high")]

\* faulty variant: an empty space anywhere in the column marks the section
check_section_any_row(row, section, product_grid, empty_spaces) ==
    LET grid_key == <<row, section.column>> IN
    IF \E key \in empty_spaces : key[2] = section.column
    THEN [kind |-> "out_of_stock",
          issue |-> Issue(row, section, "out_of_stock",
                          <<"empty space", section.expected_product>>, "high")]
    ELSE IF grid_key \notin DOMAIN product_grid
    THEN [kind |-> "undetected",
          issue |-> Issue(row, section, "undetected",
                          <<"no product", section.expected_product>>, "high")]
    ELSE IF ~product_match(section, product_grid[grid_key].product)
    THEN [kind |-> "wrong_product",
          issue |-> Issue(row, section, "wrong_product",
                          <<product_grid[grid_key].product, section.expected_product>>, "high")]
    ELSE [kind |-> "correct", issue |-> <<>>]

\* faulty variant: a matching product outside min_quantity..max_quantity is an issue
check_section_quantity_checked(row, section, product_grid, empty_spaces) ==
    LET grid_key == <<row, section.column>> IN
    IF grid_key \in empty_spaces
    THEN [kind |-> "out_of_stock",
          issue |-> Issue(row, section, "out_of_stock",
                          <<"empty space", section.expected_product>>, "high")]
    ELSE IF grid_key \notin DOMAIN product_grid
    THEN [kind |-> "undetected",
          issue |-> Issue(row, section, "undetected",
                          <<"no product", section.expected_product>>, "high")]
    ELSE IF \/ ~product_match(section, product_grid[grid_key].product)
            \/ product_grid[grid_key].quantity < section.min_quantity
            \/ product_grid[grid_key].quantity > section.max_quantity
    THEN [kind |-> "wrong_product",
          issue |-> Issue(row, section, "wrong_product",
                          <<product_grid[grid_key].product, section.expected_product>>, "high")]
    ELSE [kind |-> "correct", issue |-> <<>>]

\* body of the inner loop: the outcome of one declared section
check_section(row, section, product_grid, empty_spaces) ==
    LET grid_key == <<row, section.column>> IN
    IF grid_key \in empty_spaces
    THEN [kind |-> "out_of_stock",
          issue |-> Issue(row, section, "out_of_stock",
                          <<"empty space", section.expected_product>>, "high")]
    ELSE IF grid_key \notin DOMAIN product_grid
    THEN [kind |-> "undetected",
          issue |-> Issue(row, section, "undetected",
                          <<"no product", section.expected_product>>, "high")]
    ELSE IF ~product_match(section, product_grid[grid_key].product)
    THEN [kind |-> "wrong_product",
          issue |-> Issue(row, section, "wrong_product",
                          <<product_grid[grid_key].product, section.expected_product>>, "high")]
    ELSE [kind |-> "correct", issue |-> <<>>]

\* faulty variant: a position without any detection is not counted as checked
counts_as_checked_detected_only(kind) == kind \in {"out_of_stock", "wrong_product", "correct"}

\* the branches that increment total_checked_positions
counts_as_checked(kind) == kind \in {"out_of_stock", "undetected", "wrong_product", "correct"}

RECURSIVE GCD(_, _)
GCD(a, b) == IF b = 0 THEN a ELSE GCD(b, a % b)

\* an exact fraction in lowest terms stands for the float
Fraction(n, d) == LET g == GCD(n, d) IN [num |-> n \div g, den |-> d \div g]

\* faulty variant: integer division before scaling
compliance_score_floor_div(correct_placements, positions) ==
    IF positions > 0 THEN Fraction(100 * (correct_placements \div positions), 1)
    ELSE Fraction(0, 1)

\* (correct_placements / total_checked_positions) * 100 if total_checked_positions > 0 else 0
compliance_score(correct_placements, positions) ==
    IF positions > 0 THEN Fraction(100 * correct_placements, positions) ELSE Fraction(0, 1)

Raised(error) == [status |-> "raised", error |-> error]

check_compliance(pl, dets) ==
    LET built == build_product_grid(dets, 1, EmptyGrid) IN
    IF built.error # NoError THEN Raised(built.error)
    ELSE LET declared == declared_sections(pl.shelves)
             outcome  == [k \in 1..Len(declared) |->
                             check_section(declared[k].row, declared[k].section,
                                           built.product_grid, built.empty_spaces)]
             IsIssue(o) == o.kind # "correct"
             flagged  == SelectSeq(outcome, IsIssue)
             issues   == [k \in 1..Len(flagged) |-> flagged[k].issue]
             correct_placements == Cardinality({k \in 1..Len(declared) : outcome[k].kind = "correct"})
             total_checked_positions ==
                 Cardinality({k \in 1..Len(declared) : counts_as_checked(outcome[k].kind)})
             total_positions == Len(declared)
         IN  [status |-> "returned",
              is_compliant |-> (Len(issues) = 0),
              compliance_score |-> compliance_score(correct_placements, total_checked_positions),
              issues |-> issues,
              correct_placements |-> correct_placements,
              total_positions |-> total_positions,
              planogram_name |-> pl.name]

(***************************************************************************)
(* PlanogramService.check_compliance                                       *)
(* (image-recognition-api/app/services/planogram_service.py)               *)
(***************************************************************************)
\* body of the first loop; the quantity is read with product.get('quantity', 1)
add_detection_app(built, product) ==
    IF "row" \notin DOMAIN product THEN KeyError("row")
    ELSE IF "column" \notin DOMAIN product THEN KeyError("column")
    ELSE LET grid_key == <<product.row, product.column>>
             quantity == IF "quantity" \in DOMAIN product THEN product.quantity ELSE 1
         IN
         IF is_empty_label(product.label)
         THEN [built EXCEPT !.empty_spaces = @ \cup {grid_key}]
         ELSE IF grid_key \in DOMAIN built.product_grid
         THEN [built EXCEPT !.product_grid[grid_key].quantity = @ + quantity]
         ELSE [built EXCEPT !.product_grid =
                   @ @@ (grid_key :> [product |-> product.label, quantity |-> quantity])]

RECURSIVE build_product_grid_app(_, _, _)
build_product_grid_app(dets, i, built) ==
    IF i > Len(dets) \/ built.error # NoError THEN built
    ELSE build_product_grid_app(dets, i + 1, add_detection_app(built, dets[i]))

\* product_matches: case-insensitive equality with expected_product or a variant
product_matches_app(section, detected_product) ==
    \/ lower(detected_product) = lower(section.expected_product)
    \/ \E v \in DOMAIN section.allowed_variants :
          lower(detected_product) = lower(section.allowed_variants[v])

check_section_app(row, section, product_grid, empty_spaces) ==
    LET grid_key == <<row, section.column>> IN
    IF grid_key \in empty_spaces
    THEN [kind |-> "out_of_stock",
          issue |-> Issue(row, section, "out_of_stock",
                          <<"empty space", section.expected_product>>, "high")]
    ELSE IF grid_key \notin DOMAIN product_grid
    THEN [kind |-> "undetected",
          issue |-> Issue(row, section, "undetected", <<"unable to detect">>, "medium")]
    ELSE IF ~product_matches_app(section, product_grid[grid_key].product)
    THEN [kind |-> "wrong_product",
          issue |-> Issue(row, section, "wrong_product",
                          <<product_grid[grid_key].product, section.expected_product>>, "high")]
    ELSE [kind |-> "correct", issue |-> <<>>]

\* sum(len(shelf.sections) for shelf in planogram.shelves)
RECURSIVE sum_sections(_)
sum_sections(shelves) ==
    IF shelves = <<>> THEN 0 ELSE Len(Head(shelves).sections) + sum_sections(Tail(shelves))

check_compliance_app(pl, dets) ==
    LET total_positions == sum_sections(pl.shelves)
        built == build_product_grid_app(dets, 1, EmptyGrid)
    IN
    IF built.error # NoError THEN Raised(built.error)
    ELSE LET declared == declared_sections(pl.shelves)
             outcome  == [k \in 1..Len(declared) |->
                             check_section_app(declared[k].row, declared[k].section,
                                               built.product_grid, built.empty_spaces)]
             IsIssue(o) == o.kind # "correct"
             flagged  == SelectSeq(outcome, IsIssue)
             issues   == [k \in 1..Len(flagged) |-> flagged[k].issue]
             correct_placements == Cardinality({k \in 1..Len(declared) : outcome[k].kind = "correct"})
         IN  [status |-> "returned",
              is_compliant |-> (Len(issues) = 0),
              compliance_score |-> compliance_score(correct_placements, total_positions),
              issues |-> issues,
              correct_placements |-> correct_placements,
              total_positions |-> total_positions,
              planogram_name |-> pl.name]

(***************************************************************************)
(* PlanogramService.check_compliance                                       *)
(* (API For Image/app/services/planogram.py), on the models of             *)
(* image-recognition-api/app/models/domain.py                              *)
(***************************************************************************)
\* the planogram written with PlanogramShelfSection: row, column, product_id, quantity
as_domain_planogram(pl) ==
    [id |-> pl.id, name |-> pl.name,
     shelves |-> [s \in DOMAIN pl.shelves |->
        [row |-> pl.shelves[s].row,
         sections |-> [k \in DOMAIN pl.shelves[s].sections |->
            [row        |-> pl.shelves[s].row,
             column     |-> pl.shelves[s].sections[k].column,
             product_id |-> pl.shelves[s].sections[k].expected_product,
             quantity   |-> 1]]]]]

\* d[key] = value on a dict kept as a sequence of items in insertion order:
\* a key already present keeps its place and takes the new value
dict_set(items, key, value) ==
    IF \E i \in DOMAIN items : items[i].key = key
    THEN [i \in DOMAIN items |->
             IF items[i].key = key THEN [key |-> key, value |-> value] ELSE items[i]]
    ELSE Append(items, [key |-> key, value |-> value])

\* expected_products[(shelf.row, section.column)] = section.product_id, in loop order
RECURSIVE expected_products_of(_, _, _)
expected_products_of(declared, i, items) ==
    IF i > Len(declared) THEN items
    ELSE expected_products_of(declared, i + 1,
             dict_set(items, <<declared[i].row, declared[i].section.column>>,
                      declared[i].section.product_id))

\* {(product.row, product.column): product.label for product in detected_products}
RECURSIVE detected_map_of(_, _, _)
detected_map_of(dets, i, items) ==
    IF i > Len(dets) THEN items
    ELSE detected_map_of(dets, i + 1,
             dict_set(items, <<dets[i].row, dets[i].column>>, dets[i].label))

\* detected_map.get((row, col)): the label, or None (here the empty string, which
\* `not detected_product` treats alike)
dict_get(items, key) ==
    IF \E i \in DOMAIN items : items[i].key = key
    THEN items[CHOOSE i \in DOMAIN items : items[i].key = key].value
    ELSE <<>>

\* the outcome for one item of expected_products
check_position_domain(item, detected_map) ==
    LET detected_product == dict_get(detected_map, item.key) IN
    IF detected_product = <<>>
    THEN [kind |-> "undetected",
          issue |-> [row |-> item.key[1], column |-> item.key[2],
                     issue_type |-> "undetected",
                     expected |-> <<item.key[1], item.key[2], item.value>>,
                     found |-> <<"no product detected">>, severity |-> "high"]]
    ELSE IF lower(detected_product) # lower(item.value)
    THEN [kind |-> "wrong_product",
          issue |-> [row |-> item.key[1], column |-> item.key[2],
                     issue_type |-> "wrong_product",
                     expected |-> <<item.key[1], item.key[2], item.value>>,
                     found |-> <<detected_product>>, severity |-> "high"]]
    ELSE [kind |-> "correct", issue |-> <<>>]

AttributeError(k) == [type |-> "AttributeError", key |-> k]

\* the first attribute a detection lacks, read in the order row, column, label
missing_attribute(product) ==
    IF "row" \notin DOMAIN product THEN "row"
    ELSE IF "column" \notin DOMAIN product THEN "column"
    ELSE IF "label" \notin DOMAIN product THEN "label"
    ELSE ""

check_compliance_domain(pl, dets) ==
    LET declared == declared_sections(pl.shelves)
        total_positions == Len(declared)
        expected_products == expected_products_of(declared, 1, <<>>)
        incomplete == {i \in DOMAIN dets : missing_attribute(dets[i]) # ""}
    IN
    IF incomplete # {}
    THEN Raised(AttributeError(missing_attribute(
             dets[CHOOSE i \in incomplete : \A j \in incomplete : i <= j])))
    ELSE LET detected_map == detected_map_of(dets, 1, <<>>)
             outcome == [k \in DOMAIN expected_products |->
                            check_position_domain(expected_products[k], detected_map)]
             IsIssue(o) == o.kind # "correct"
             flagged == SelectSeq(outcome, IsIssue)
             issues  == [k \in 1..Len(flagged) |-> flagged[k].issue]
             correct_placements ==
                 Cardinality({k \in DOMAIN outcome : outcome[k].kind = "correct"})
         IN  [status |-> "returned",
              is_compliant |-> (Len(issues) = 0),
              compliance_score |-> compliance_score(correct_placements, total_positions),
              issues |-> issues,
              correct_placements |-> correct_placements,
              total_positions |-> total_positions,
              planogram_name |-> pl.name]

(***************************************************************************)
(* What check_compliance does to the objects it is handed.  The detection  *)
(* dictionaries are the objects 1..Len(detected_products); product_grid    *)
(* maps a grid key to the object that holds its entry.                     *)
(***************************************************************************)
InitialHeap(dets) == [objects |-> dets, product_grid |-> <<>>, raised |-> FALSE]

\* faulty variant: product_grid[grid_key] = product, the entry is the detection itself
store_detection_aliased(heap, i) ==
    LET product == heap.objects[i] IN
    IF "row" \notin DOMAIN product \/ "column" \notin DOMAIN product
    THEN [heap EXCEPT !.raised = TRUE]
    ELSE LET grid_key == <<product.row, product.column>> IN
         IF is_empty_label(product.label) THEN heap
         ELSE IF "quantity" \notin DOMAIN product THEN [heap EXCEPT !.raised = TRUE]
         ELSE IF grid_key \in DOMAIN heap.product_grid
         THEN [heap EXCEPT !.objects[heap.product_grid[grid_key]].quantity =
                               @ + product.quantity]
         ELSE [heap EXCEPT !.product_grid = @ @@ (grid_key :> i)]

\* body of the first loop: `product_grid[grid_key]['quantity'] += ...` writes to
\* the entry's object, and a new entry is a dictionary literal, a new object
store_detection(heap, i) ==
    LET product == heap.objects[i] IN
    IF "row" \notin DOMAIN product \/ "column" \notin DOMAIN product
    THEN [heap EXCEPT !.raised = TRUE]
    ELSE LET grid_key == <<product.row, product.column>> IN
         IF is_empty_label(product.label) THEN heap
         ELSE IF "quantity" \notin DOMAIN product THEN [heap EXCEPT !.raised = TRUE]
         ELSE IF grid_key \in DOMAIN heap.product_grid
         THEN [heap EXCEPT !.objects[heap.product_grid[grid_key]].quantity =
                               @ + product.quantity]
         ELSE [heap EXCEPT !.objects = Append(@, [product  |-> product.label,
                                                  quantity |-> product.quantity]),
                           !.product_grid = @ @@ (grid_key :> Len(heap.objects) + 1)]

RECURSIVE store_detections(_, _, _)
store_detections(heap, i, n) ==
    IF i > n \/ heap.raised THEN heap
    ELSE store_detections(store_detection(heap, i), i + 1, n)

\* the caller's detection list once check_compliance has returned or raised;
\* the later loops only read product_grid, empty_spaces and the planogram
detections_after(dets) ==
    SubSeq(store_detections(InitialHeap(dets), 1, Len(dets)).objects, 1, Len(dets))

\* the same loop of the image-recognition-api copy
store_detection_app(heap, i) ==
    LET product == heap.objects[i] IN
    IF "row" \notin DOMAIN product \/ "column" \notin DOMAIN product
    THEN [heap EXCEPT !.raised = TRUE]
    ELSE LET grid_key == <<product.row, product.column>>
             quantity == IF "quantity" \in DOMAIN product THEN product.quantity ELSE 1
         IN
         IF is_empty_label(product.label) THEN heap
         ELSE IF grid_key \in DOMAIN heap.product_grid
         THEN [heap EXCEPT !.objects[heap.product_grid[grid_key]].quantity = @ + quantity]
         ELSE [heap EXCEPT !.objects = Append(@, [product  |-> product.label,
                                                  quantity |-> quantity]),
                           !.product_grid = @ @@ (grid_key :> Len(heap.objects) + 1)]

RECURSIVE store_detections_app(_, _, _)
store_detections_app(heap, i, n) ==
    IF i > n \/ heap.raised THEN heap
    ELSE store_detections_app(store_detection_app(heap, i), i + 1, n)

detections_after_app(dets) ==
    SubSeq(store_detections_app(InitialHeap(dets), 1, Len(dets)).objects, 1, Len(dets))

(***************************************************************************)
(* The planogram's file (API For Image/planogram_service.py).  A file      *)
(* holds as much of a JSON document as has been flushed to it.             *)
(***************************************************************************)
EmptyFile == [flushed |-> "nothing"]

\* json.dump(updated.dict(), f) followed by the close of f
json_dump(pl) == [flushed |-> "all", document |-> pl]

\* json.dump when the buffer has been flushed once and f is still open
json_dump_unfinished(pl) == [flushed |-> "part", document |-> pl]

\* json.load(f): a document cut short, or no document, raises JSONDecodeError
json_load(file) ==
    IF file.flushed = "all"
    THEN [status |-> "loaded", data |-> file.document]
    ELSE [status |-> "raised", error |-> "JSONDecodeError"]

(***************************************************************************)
(* API For Image/main.py: grid inference.  The contour search of OpenCV is *)
(* an input: the lists of shelf and product separator candidates it can    *)
(* return, in any order, positions inside the normalized image.            *)
(***************************************************************************)
TARGET_WIDTH == 600
MIN_HEIGHT   == 400
MAX_HEIGHT   == 1200

Min(a, b) == IF a < b THEN a ELSE b
Max(a, b) == IF a > b THEN a ELSE b

\* /analyze: the size the upload is resized to before detection
analyze_normalized_size(original_width, original_height) ==
    LET normalized_height == (TARGET_WIDTH * original_height) \div original_width
    IN  IF normalized_height < MIN_HEIGHT
        THEN [width  |-> (MIN_HEIGHT * original_width) \div original_height,
              height |-> MIN_HEIGHT]
        ELSE IF normalized_height > MAX_HEIGHT
        THEN [width  |-> (MAX_HEIGHT * original_width) \div original_height,
              height |-> MAX_HEIGHT]
        ELSE [width |-> TARGET_WIDTH, height |-> normalized_height]

\* /detect-grid: the same normalization, written out again in that handler
detect_grid_normalized_size(original_width, original_height) ==
    LET normalized_height == (TARGET_WIDTH * original_height) \div original_width
    IN  IF normalized_height < MIN_HEIGHT
        THEN [width  |-> (MIN_HEIGHT * original_width) \div original_height,
              height |-> MIN_HEIGHT]
        ELSE IF normalized_height > MAX_HEIGHT
        THEN [width  |-> (MAX_HEIGHT * original_width) \div original_height,
              height |-> MAX_HEIGHT]
        ELSE [width |-> TARGET_WIDTH, height |-> normalized_height]

\* sorted(lines): ascending, duplicates kept
RECURSIVE sorted(_)
sorted(lines) ==
    IF lines = <<>> THEN <<>>
    ELSE LET i == CHOOSE k \in DOMAIN lines : \A j \in DOMAIN lines : lines[k] <= lines[j]
         IN  <<lines[i]>> \o sorted(SubSeq(lines, 1, i - 1) \o SubSeq(lines, i + 1, Len(lines)))

\* set(lines)
set(lines) == {lines[i] : i \in DOMAIN lines}

\* sorted(set(...)): ascending, distinct
RECURSIVE sorted_set(_)
sorted_set(S) ==
    IF S = {} THEN <<>>
    ELSE LET m == CHOOSE x \in S : \A y \in S : x <= y
         IN  <<m>> \o sorted_set(S \ {m})

\* the loop shared by both filters: keep a line when it lies at least
\* min_distance after the last line kept.  min_distance is height * 0.15 or
\* width * 0.08; it is carried as hundredths (15 * height, 8 * width).
RECURSIVE keep_distant(_, _, _)
keep_distant(rest, filtered, min_distance_x100) ==
    IF rest = <<>> THEN filtered
    ELSE keep_distant(Tail(rest),
                      IF 100 * (Head(rest) - filtered[Len(filtered)]) >= min_distance_x100
                      THEN Append(filtered, Head(rest))
                      ELSE filtered,
                      min_distance_x100)

\* detect_dynamic_grid.filter_close_lines: starts from lines[0] of the list as
\* found, then walks sorted(lines)[1:]
dynamic_filter_close_lines(lines, min_distance_x100) ==
    IF lines = <<>> THEN <<>>
    ELSE keep_distant(Tail(sorted(lines)), <<lines[1]>>, min_distance_x100)

\* detect_grid_structure.filter_close_lines: walks the list it is given
structure_filter_close_lines(lines, min_distance_x100) ==
    IF lines = <<>> THEN <<>>
    ELSE keep_distant(Tail(lines), <<lines[1]>>, min_distance_x100)

GridRaised(message) == [status |-> "raised", error |-> message]

\* detect_dynamic_grid without its rows == 1 and cols == 1 tests
dynamic_grid_fails_validation_bounds_only(rows, cols) ==
    rows > 6 \/ cols > 8 \/ rows < 1 \/ cols < 1

\* detect_dynamic_grid: "Validation and fallback"
dynamic_grid_fails_validation(rows, cols) ==
    \/ rows > 6 \/ cols > 8 \/ rows < 1 \/ cols < 1
    \/ (rows = 1 /\ cols <= 2)
    \/ (cols = 1 /\ rows <= 2)

\* detect_shelf_layout.detect_dynamic_grid
detect_dynamic_grid(width, height, found_shelf_separators, found_product_separators) ==
    LET shelf_separators   == dynamic_filter_close_lines(found_shelf_separators, 15 * height)
        product_separators == dynamic_filter_close_lines(found_product_separators, 8 * width)
        h_lines == sorted_set({0} \cup set(shelf_separators) \cup {height})
        v_lines == sorted_set({0} \cup set(product_separators) \cup {width})
        rows == Len(h_lines) - 1
        cols == Len(v_lines) - 1
    IN  IF dynamic_grid_fails_validation(rows, cols)
        THEN GridRaised("Grid detection failed validation")
        ELSE [status |-> "returned", rows |-> rows, cols |-> cols,
              h_lines |-> h_lines, v_lines |-> v_lines]

\* [int(i * size / n) for i in range(n + 1)]
evenly_spaced(size, n) == [k \in 1..(n + 1) |-> ((k - 1) * size) \div n]

\* detect_shelf_layout: "Intelligent fallback based on image characteristics".
\* aspect_ratio = width / height is compared as a cross product.
detect_shelf_layout_fallback(width, height) ==
    LET num_rows ==
            IF 10 * width > 25 * height THEN 1
            ELSE IF 10 * width > 18 * height THEN 2
            ELSE IF 10 * width > 12 * height THEN (IF height < 500 THEN 2 ELSE 3)
            ELSE IF 10 * width > 8 * height THEN 3
            ELSE Min(4, Max(3, height \div 150))
        num_cols ==
            IF 10 * width > 25 * height THEN Min(6, Max(3, width \div 150))
            ELSE IF 10 * width > 18 * height THEN Min(6, Max(3, width \div 120))
            ELSE IF 10 * width > 12 * height THEN Min(5, Max(3, width \div 100))
            ELSE IF 10 * width > 8 * height THEN Min(4, Max(2, width \div 150))
            ELSE Min(3, Max(2, width \div 200))
    IN  [num_rows |-> num_rows, num_cols |-> num_cols,
         h_lines |-> evenly_spaced(height, num_rows),
         v_lines |-> evenly_spaced(width, num_cols)]

\* detect_shelf_layout: dynamic detection first, the fallback on any exception
detect_shelf_layout(width, height, found_shelf_separators, found_product_separators) ==
    LET dynamic == detect_dynamic_grid(width, height,
                                       found_shelf_separators, found_product_separators)
        fallback == detect_shelf_layout_fallback(width, height)
    IN  IF dynamic.status = "returned"
        THEN [status |-> "returned", detection_method |-> "computer_vision",
              width |-> width, height |-> height,
              rows |-> dynamic.rows, columns |-> dynamic.cols,
              h_lines |-> dynamic.h_lines, v_lines |-> dynamic.v_lines]
        ELSE [status |-> "returned", detection_method |-> "intelligent_fallback",
              width |-> width, height |-> height,
              rows |-> fallback.num_rows, columns |-> fallback.num_cols,
              h_lines |-> fallback.h_lines, v_lines |-> fallback.v_lines]

\* detect_grid.detect_grid_structure
detect_grid_structure(width, height, found_shelf_separators, found_product_separators) ==
    LET shelf_separators ==
            structure_filter_close_lines(sorted_set(set(found_shelf_separators)), 15 * height)
        product_separators ==
            structure_filter_close_lines(sorted_set(set(found_product_separators)), 8 * width)
        h_lines == sorted_set({0} \cup set(shelf_separators) \cup {height})
        v_lines == sorted_set({0} \cup set(product_separators) \cup {width})
        rows == Len(h_lines) - 1
        cols == Len(v_lines) - 1
    IN  IF rows > 6
        THEN GridRaised("Too many rows detected, likely false positives")
        ELSE [status |-> "returned", rows |-> Max(1, rows), cols |-> Max(1, cols),
              h_lines |-> h_lines, v_lines |-> v_lines]

\* /detect-grid: "Validate the detection results with reasonable bounds"
grid_outside_reasonable_bounds(num_rows, num_cols) ==
    \/ num_rows < 1 \/ num_rows > 6 \/ num_cols < 1 \/ num_cols > 8
    \/ (num_rows = 1 /\ num_cols <= 2)
    \/ (num_cols = 1 /\ num_rows <= 2)

\* detect_grid_fallback with the first band closed at aspect_ratio = 2.5
detect_grid_fallback_inclusive(width, height) ==
    LET num_rows ==
            IF 10 * width >= 25 * height THEN 1
            ELSE IF 10 * width > 18 * height THEN 2
            ELSE IF 10 * width > 12 * height THEN (IF height < 500 THEN 2 ELSE 3)
            ELSE IF 10 * width > 8 * height THEN 3
            ELSE Min(4, Max(3, height \div 150))
        num_cols ==
            IF 10 * width >= 25 * height THEN Min(6, Max(3, width \div 150))
            ELSE IF 10 * width > 18 * height THEN Min(6, Max(3, width \div 120))
            ELSE IF 10 * width > 12 * height THEN Min(5, Max(3, width \div 100))
            ELSE IF 10 * width > 8 * height THEN Min(4, Max(2, width \div 150))
            ELSE Min(3, Max(2, width \div 200))
    IN  [num_rows |-> num_rows, num_cols |-> num_cols,
         h_lines |-> evenly_spaced(height, num_rows),
         v_lines |-> evenly_spaced(width, num_cols)]

\* /detect-grid: "Intelligent fallback based on image characteristics"
detect_grid_fallback(width, height) ==
    LET num_rows ==
            IF 10 * width > 25 * height THEN 1
            ELSE IF 10 * width > 18 * height THEN 2
            ELSE IF 10 * width > 12 * height THEN (IF height < 500 THEN 2 ELSE 3)
            ELSE IF 10 * width > 8 * height THEN 3
            ELSE Min(4, Max(3, height \div 150))
        num_cols ==
            IF 10 * width > 25 * height THEN Min(6, Max(3, width \div 150))
            ELSE IF 10 * width > 18 * height THEN Min(6, Max(3, width \div 120))
            ELSE IF 10 * width > 12 * height THEN Min(5, Max(3, width \div 100))
            ELSE IF 10 * width > 8 * height THEN Min(4, Max(2, width \div 150))
            ELSE Min(3, Max(2, width \div 200))
    IN  [num_rows |-> num_rows, num_cols |-> num_cols,
         h_lines |-> evenly_spaced(height, num_rows),
         v_lines |-> evenly_spaced(width, num_cols)]

\* /detect-grid: structure detection and its validation inside one try, the
\* fallback on any exception
detect_grid(width, height, found_shelf_separators, found_product_separators) ==
    LET structure == detect_grid_structure(width, height,
                                           found_shelf_separators, found_product_separators)
        fallback == detect_grid_fallback(width, height)
    IN  IF structure.status = "returned"
           /\ ~grid_outside_reasonable_bounds(structure.rows, structure.cols)
        THEN [status |-> "returned", detection_method |-> "computer_vision",
              width |-> width, height |-> height,
              rows |-> structure.rows, columns |-> structure.cols,
              h_lines |-> structure.h_lines, v_lines |-> structure.v_lines]
        ELSE [status |-> "returned", detection_method |-> "intelligent_fallback",
              width |-> width, height |-> height,
              rows |-> fallback.num_rows, columns |-> fallback.num_cols,
              h_lines |-> fallback.h_lines, v_lines |-> fallback.v_lines]

(***************************************************************************)
(* image-recognition-api: grid inference of /analyze                       *)
(* (app/api/v1/endpoints.py with app/services/image.py).  The package's    *)
(* config/settings.py is the one kept under API For Image/app/config.      *)
(***************************************************************************)
settings ==
    [TARGET_WIDTH |-> 600, SIZE_BUFFER |-> 50, MIN_HEIGHT |-> 400, MAX_HEIGHT |-> 1200,
     MAX_ROWS |-> 6, MAX_COLS |-> 8]

Abs(x) == IF x < 0 THEN -x ELSE x

\* ImageService.normalize_image: the size the image is resized to
normalize_image(width, height) ==
    IF \/ Abs(width - settings.TARGET_WIDTH) <= settings.SIZE_BUFFER
       \/ Abs(height - settings.TARGET_WIDTH) <= settings.SIZE_BUFFER
    THEN [width |-> width, height |-> height]
    ELSE LET new_width  == IF width > height THEN settings.TARGET_WIDTH
                           ELSE (settings.TARGET_WIDTH * width) \div height
             new_height == IF width > height
                           THEN (settings.TARGET_WIDTH * height) \div width
                           ELSE settings.TARGET_WIDTH
         IN  IF new_height < settings.MIN_HEIGHT
             THEN [width  |-> (settings.MIN_HEIGHT * width) \div height,
                   height |-> settings.MIN_HEIGHT]
             ELSE IF new_height > settings.MAX_HEIGHT
             THEN [width  |-> (settings.MAX_HEIGHT * width) \div height,
                   height |-> settings.MAX_HEIGHT]
             ELSE [width |-> new_width, height |-> new_height]

\* ImageService.detect_grid.filter_close_lines
image_filter_close_lines(lines, min_distance_x100) ==
    IF lines = <<>> THEN <<>>
    ELSE keep_distant(Tail(sorted(lines)), <<lines[1]>>, min_distance_x100)

\* ImageService.detect_grid: "Validate grid dimensions"
image_grid_fails_validation(rows, cols) ==
    \/ rows > settings.MAX_ROWS \/ cols > settings.MAX_COLS
    \/ rows < 1 \/ cols < 1
    \/ (rows = 1 /\ cols <= 2)
    \/ (cols = 1 /\ rows <= 2)

\* ImageService.detect_grid (app/services/image.py): raises ValueError, has
\* no fallback of its own
image_detect_grid(width, height, found_shelf_separators, found_product_separators) ==
    LET shelf_separators   == image_filter_close_lines(found_shelf_separators, 15 * height)
        product_separators == image_filter_close_lines(found_product_separators, 8 * width)
        h_lines == sorted_set({0} \cup set(shelf_separators) \cup {height})
        v_lines == sorted_set({0} \cup set(product_separators) \cup {width})
        rows == Len(h_lines) - 1
        cols == Len(v_lines) - 1
    IN  IF image_grid_fails_validation(rows, cols)
        THEN GridRaised("Grid detection failed validation")
        ELSE [status |-> "returned", rows |-> rows, cols |-> cols,
              h_lines |-> h_lines, v_lines |-> v_lines]

\* endpoints.analyze_image: "Fallback grid detection based on aspect ratio"
analyze_image_fallback(normalized_width, normalized_height) ==
    LET rows ==
            IF 10 * normalized_width > 25 * normalized_height THEN 1
            ELSE IF 10 * normalized_width > 18 * normalized_height THEN 2
            ELSE IF 10 * normalized_width > 12 * normalized_height
                 THEN (IF normalized_height < 500 THEN 2 ELSE 3)
            ELSE IF 10 * normalized_width > 8 * normalized_height THEN 3
            ELSE Min(4, Max(3, normalized_height \div 150))
        cols ==
            IF 10 * normalized_width > 25 * normalized_height
                 THEN Min(6, Max(3, normalized_width \div 150))
            ELSE IF 10 * normalized_width > 18 * normalized_height
                 THEN Min(6, Max(3, normalized_width \div 120))
            ELSE IF 10 * normalized_width > 12 * normalized_height
                 THEN Min(5, Max(3, normalized_width \div 100))
            ELSE IF 10 * normalized_width > 8 * normalized_height
                 THEN Min(4, Max(2, normalized_width \div 150))
            ELSE Min(3, Max(2, normalized_width \div 200))
    IN  [num_rows |-> rows, num_cols |-> cols,
         h_lines |-> evenly_spaced(normalized_height, rows),
         v_lines |-> evenly_spaced(normalized_width, cols)]

\* analyze_image_grid without the except branch: the ValueError of
\* detect_grid goes to the caller
analyze_image_grid_uncaught(width, height, found_shelf_separators, found_product_separators) ==
    LET detected == image_detect_grid(width, height,
                                      found_shelf_separators, found_product_separators)
    IN  IF detected.status = "returned"
        THEN [status |-> "returned", detection_method |-> "computer_vision",
              width |-> width, height |-> height,
              rows |-> detected.rows, columns |-> detected.cols,
              h_lines |-> detected.h_lines, v_lines |-> detected.v_lines]
        ELSE detected

\* endpoints.analyze_image, "Detect grid": detect_grid, and the fallback when
\* it raises ValueError
analyze_image_grid(width, height, found_shelf_separators, found_product_separators) ==
    LET detected == image_detect_grid(width, height,
                                      found_shelf_separators, found_product_separators)
        fallback == analyze_image_fallback(width, height)
    IN  IF detected.status = "returned"
        THEN [status |-> "returned", detection_method |-> "computer_vision",
              width |-> width, height |-> height,
              rows |-> detected.rows, columns |-> detected.cols,
              h_lines |-> detected.h_lines, v_lines |-> detected.v_lines]
        ELSE [status |-> "returned", detection_method |-> "intelligent_fallback",
              width |-> width, height |-> height,
              rows |-> fallback.num_rows, columns |-> fallback.num_cols,
              h_lines |-> fallback.h_lines, v_lines |-> fallback.v_lines]

(***************************************************************************)
(* image-recognition-api: app/services/image_service.py                    *)
(***************************************************************************)
\* ImageService._normalize_image with its defaults target_width = 600,
\* buffer = 50
_normalize_image(width, height) ==
    IF Abs(width - 600) <= 50 \/ Abs(height - 600) <= 50
    THEN [width |-> width, height |-> height]
    ELSE LET new_width  == IF width > height THEN 600 ELSE (600 * width) \div height
             new_height == IF width > height THEN (600 * height) \div width ELSE 600
         IN  IF new_height < 400
             THEN [width |-> (400 * width) \div height, height |-> 400]
             ELSE IF new_height > 1200
             THEN [width |-> (1200 * width) \div height, height |-> 1200]
             ELSE [width |-> new_width, height |-> new_height]

\* ImageService._detect_grid_structure.filter_close_lines
service_structure_filter_close_lines(lines, min_distance_x100) ==
    IF lines = <<>> THEN <<>>
    ELSE keep_distant(Tail(sorted(lines)), <<lines[1]>>, min_distance_x100)

\* ImageService._detect_grid_structure: its only test is rows > 6
_detect_grid_structure(width, height, found_shelf_separators, found_product_separators) ==
    LET shelf_separators ==
            service_structure_filter_close_lines(found_shelf_separators, 15 * height)
        product_separators ==
            service_structure_filter_close_lines(found_product_separators, 8 * width)
        h_lines == sorted_set({0} \cup set(shelf_separators) \cup {height})
        v_lines == sorted_set({0} \cup set(product_separators) \cup {width})
        rows == Len(h_lines) - 1
        cols == Len(v_lines) - 1
    IN  IF rows > 6
        THEN GridRaised("Too many rows detected, likely false positives")
        ELSE [status |-> "returned", rows |-> rows, cols |-> cols,
              h_lines |-> h_lines, v_lines |-> v_lines]

\* ImageService.detect_grid: the fallback of its except branch
service_detect_grid_fallback(width, height) ==
    LET num_rows ==
            IF 10 * width > 25 * height THEN 1
            ELSE IF 10 * width > 18 * height THEN 2
            ELSE IF 10 * width > 12 * height THEN (IF height < 500 THEN 2 ELSE 3)
            ELSE IF 10 * width > 8 * height THEN 3
            ELSE Min(4, Max(3, height \div 150))
        num_cols ==
            IF 10 * width > 25 * height THEN Min(6, Max(3, width \div 150))
            ELSE IF 10 * width > 18 * height THEN Min(6, Max(3, width \div 120))
            ELSE IF 10 * width > 12 * height THEN Min(5, Max(3, width \div 100))
            ELSE IF 10 * width > 8 * height THEN Min(4, Max(2, width \div 150))
            ELSE Min(3, Max(2, width \div 200))
    IN  [num_rows |-> num_rows, num_cols |-> num_cols,
         h_lines |-> evenly_spaced(height, num_rows),
         v_lines |-> evenly_spaced(width, num_cols)]

\* ImageService.detect_grid: _detect_grid_structure in a try, the fallback on
\* any exception; no validation of the structural result
service_detect_grid(width, height, found_shelf_separators, found_product_separators) ==
    LET structure == _detect_grid_structure(width, height,
                                            found_shelf_separators, found_product_separators)
        fallback == service_detect_grid_fallback(width, height)
    IN  IF structure.status = "returned"
        THEN [status |-> "returned", detection_method |-> "computer_vision",
              width |-> width, height |-> height,
              rows |-> structure.rows, columns |-> structure.cols,
              h_lines |-> structure.h_lines, v_lines |-> structure.v_lines]
        ELSE [status |-> "returned", detection_method |-> "intelligent_fallback",
              width |-> width, height |-> height,
              rows |-> fallback.num_rows, columns |-> fallback.num_cols,
              h_lines |-> fallback.h_lines, v_lines |-> fallback.v_lines]

\* ImageService._detect_shelf_layout: the fallback of its except branch
_detect_shelf_layout_fallback(width, height) ==
    LET num_rows ==
            IF 10 * width > 25 * height THEN 1
            ELSE IF 10 * width > 18 * height THEN 2
            ELSE IF 10 * width > 12 * height THEN (IF height < 500 THEN 2 ELSE 3)
            ELSE IF 10 * width > 8 * height THEN 3
            ELSE Min(4, Max(3, height \div 150))
        num_cols ==
            IF 10 * width > 25 * height THEN Min(6, Max(3, width \div 150))
            ELSE IF 10 * width > 18 * height THEN Min(6, Max(3, width \div 120))
            ELSE IF 10 * width > 12 * height THEN Min(5, Max(3, width \div 100))
            ELSE IF 10 * width > 8 * height THEN Min(4, Max(2, width \div 150))
            ELSE Min(3, Max(2, width \div 200))
    IN  [num_rows |-> num_rows, num_cols |-> num_cols,
         h_lines |-> evenly_spaced(height, num_rows),
         v_lines |-> evenly_spaced(width, num_cols)]

\* ImageService._detect_shelf_layout.detect_dynamic_grid: validation
service_dynamic_grid_fails_validation(rows, cols) ==
    \/ rows > 6 \/ cols > 8 \/ rows < 1 \/ cols < 1
    \/ (rows = 1 /\ cols <= 2)
    \/ (cols = 1 /\ rows <= 2)

\* ImageService._detect_shelf_layout.detect_dynamic_grid.filter_close_lines
service_dynamic_filter_close_lines(lines, min_distance_x100) ==
    IF lines = <<>> THEN <<>>
    ELSE keep_distant(Tail(sorted(lines)), <<lines[1]>>, min_distance_x100)

\* cv2.resize rejects an empty target size
resize_fails(size) == size.width < 1 \/ size.height < 1

\* ImageService._detect_shelf_layout: dynamic detection, the fallback on any
\* exception
_detect_shelf_layout(width, height, found_shelf_separators, found_product_separators) ==
    LET shelf_separators ==
            service_dynamic_filter_close_lines(found_shelf_separators, 15 * height)
        product_separators ==
            service_dynamic_filter_close_lines(found_product_separators, 8 * width)
        h_lines == sorted_set({0} \cup set(shelf_separators) \cup {height})
        v_lines == sorted_set({0} \cup set(product_separators) \cup {width})
        rows == Len(h_lines) - 1
        cols == Len(v_lines) - 1
        fallback == _detect_shelf_layout_fallback(width, height)
    IN  IF ~service_dynamic_grid_fails_validation(rows, cols)
        THEN [status |-> "returned", detection_method |-> "computer_vision",
              width |-> width, height |-> height,
              rows |-> rows, columns |-> cols,
              h_lines |-> h_lines, v_lines |-> v_lines]
        ELSE [status |-> "returned", detection_method |-> "intelligent_fallback",
              width |-> width, height |-> height,
              rows |-> fallback.num_rows, columns |-> fallback.num_cols,
              h_lines |-> fallback.h_lines, v_lines |-> fallback.v_lines]

(***************************************************************************)
(* assign_coordinates: from a bounding box to a grid cell                  *)
(***************************************************************************)
\* the loop "for i, line in enumerate(lines[1:]): if center <= line: ... break
\* else: last"
first_cell_reaching(center, lines, last) ==
    LET reaching == {i \in 0..(Len(lines) - 2) : center <= lines[i + 2]}
    IN  IF reaching = {} THEN last
        ELSE CHOOSE i \in reaching : \A j \in reaching : i <= j

\* detect_shelf_layout.assign_coordinates without the final "Ensure bounds"
assign_coordinates_unclamped(box, num_rows, num_cols, h_lines, v_lines) ==
    LET center_y == (box.xyxy[2] + box.xyxy[4]) \div 2
        center_x == (box.xyxy[1] + box.xyxy[3]) \div 2
    IN  [row    |-> first_cell_reaching(center_y, h_lines, num_rows),
         column |-> first_cell_reaching(center_x, v_lines, num_cols)]

\* detect_shelf_layout.assign_coordinates with y1 in place of the centre
assign_coordinates_top_edge(box, num_rows, num_cols, h_lines, v_lines) ==
    LET row    == first_cell_reaching(box.xyxy[2], h_lines, num_rows - 1)
        column == first_cell_reaching(box.xyxy[1], v_lines, num_cols - 1)
    IN  [row    |-> Max(0, Min(num_rows - 1, row)),
         column |-> Max(0, Min(num_cols - 1, column))]

\* detect_shelf_layout.assign_coordinates (API For Image/main.py); the box
\* coordinates are the integers int() made of them
assign_coordinates(box, num_rows, num_cols, h_lines, v_lines) ==
    LET center_y == (box.xyxy[2] + box.xyxy[4]) \div 2
        center_x == (box.xyxy[1] + box.xyxy[3]) \div 2
        row    == first_cell_reaching(center_y, h_lines, num_rows - 1)
        column == first_cell_reaching(center_x, v_lines, num_cols - 1)
    IN  [row    |-> Max(0, Min(num_rows - 1, row)),
         column |-> Max(0, Min(num_cols - 1, column))]

\* ImageService.detect_products.assign_coordinates (app/services/image.py)
image_assign_coordinates(box, grid_dims, h_lines, v_lines) ==
    LET center_y == (box.xyxy[2] + box.xyxy[4]) \div 2
        center_x == (box.xyxy[1] + box.xyxy[3]) \div 2
        row    == first_cell_reaching(center_y, h_lines, grid_dims.rows - 1)
        column == first_cell_reaching(center_x, v_lines, grid_dims.columns - 1)
    IN  [row    |-> Max(0, Min(grid_dims.rows - 1, row)),
         column |-> Max(0, Min(grid_dims.columns - 1, column))]

(***************************************************************************)
(* The compliance state machine: one request against a loaded planogram    *)
(***************************************************************************)
NoResult == [status |-> "pending"]
NoImage  == [original_width |-> 0, original_height |-> 0,
             shelf_marks |-> <<>>, product_marks |-> <<>>]
NoGrid   == [status |-> "pending"]
NotCalled == [status |-> "pending"]
NoUpdate  == [pc |-> "none"]
NoRequest == [pc |-> "none"]

Init ==
    /\ planogram \in Planograms
    /\ detected_products = <<>>
    /\ result = NoResult
    /\ impl = "none"
    /\ image = NoImage
    /\ grid = NoGrid
    /\ endpoint = "none"
    /\ boxes = <<>>
    /\ name_arg = <<>>
    /\ name_result = NotCalled
    /\ storage = json_dump(planogram)
    /\ after_call = NotCalled
    /\ products_dir = {}
    /\ update = NoUpdate
    /\ request = NoRequest

\* API For Image: /analyze hands its detection list to check_compliance
CheckCompliance ==
    /\ impl = "none"
    /\ \E dets \in DetectionLists :
          /\ detected_products' = dets
          /\ result' = check_compliance(planogram, dets)
          /\ after_call' = [planogram |-> planogram,
                            detected_products |-> detections_after(dets)]
    /\ impl' = "legacy"
    /\ UNCHANGED <<productVars, planogram, gridVars, normalizerVars, storage, update, request>>

\* image-recognition-api: the same call on its own copy of the service
CheckComplianceApp ==
    /\ impl = "none"
    /\ \E dets \in DetectionLists :
          /\ detected_products' = dets
          /\ result' = check_compliance_app(planogram, dets)
          /\ after_call' = [planogram |-> planogram,
                            detected_products |-> detections_after_app(dets)]
    /\ impl' = "app"
    /\ UNCHANGED <<productVars, planogram, gridVars, normalizerVars, storage, update, request>>

Next == CheckCompliance \/ CheckComplianceApp

Spec == Init /\ [][Next]_vars

\* endpoints.py /analyze: the call on the copy of API For Image/app/services,
\* with the planogram and the detections as objects of models/domain.py
CheckComplianceDomain ==
    /\ impl = "none"
    /\ \E dets \in DetectionLists :
          /\ detected_products' = dets
          /\ result' = check_compliance_domain(as_domain_planogram(planogram), dets)
          /\ after_call' = [planogram |-> planogram, detected_products |-> dets]
    /\ impl' = "domain"
    /\ UNCHANGED <<productVars, planogram, gridVars, normalizerVars, storage, update, request>>

\* the three copies of check_compliance side by side
NextCopies == CheckCompliance \/ CheckComplianceApp \/ CheckComplianceDomain

SpecCopies == Init /\ [][NextCopies]_vars

(***************************************************************************)
(* check_compliance of API For Image/planogram_service.py on detections    *)
(* that carry other quantities than 1 and on sections with other           *)
(* min_quantity / max_quantity than the default                            *)
(***************************************************************************)
Quantities == {1, 3}

\* (min_quantity, max_quantity) of a section: the default and a wider range
QuantityRanges == { <<1, 1>>, <<2, 4>> }

QuantityShelves ==
    { [row |-> 0, sections |-> <<[column |-> 0, expected_product |-> L_CocaCola,
                                  allowed_variants |-> <<L_SPRITE>>,
                                  min_quantity |-> q[1], max_quantity |-> q[2]]>>] :
        q \in QuantityRanges }
    \cup { [row |-> 1, sections |-> <<[column |-> 0, expected_product |-> s_empty_shelf,
                                       allowed_variants |-> <<>>,
                                       min_quantity |-> 2, max_quantity |-> 4]>>] }

QuantityPlanograms ==
    { [id |-> <<"p","1">>, name |-> PlanogramName, shelves |-> sh] :
        sh \in SeqsUpTo(QuantityShelves, MaxShelves) }

QuantityDetections ==
    { [label |-> l, row |-> 0, column |-> 0, quantity |-> q] :
        l \in {L_Coke, L_EmptyShelfSp}, q \in Quantities }
    \cup { [label |-> L_EmptyShelf, row |-> 1, column |-> 0, quantity |-> q] :
             q \in Quantities }

QuantityDetectionLists == SeqsUpTo(QuantityDetections, MaxDetections)

InitQuantities ==
    /\ planogram \in QuantityPlanograms
    /\ detected_products = <<>>
    /\ result = NoResult
    /\ impl = "none"
    /\ image = NoImage
    /\ grid = NoGrid
    /\ endpoint = "none"
    /\ boxes = <<>>
    /\ name_arg = <<>>
    /\ name_result = NotCalled
    /\ storage = json_dump(planogram)
    /\ after_call = NotCalled
    /\ products_dir = {}
    /\ update = NoUpdate
    /\ request = NoRequest

\* a caller hands check_compliance detections with quantities of its own
CheckComplianceQuantities ==
    /\ impl = "none"
    /\ \E dets \in QuantityDetectionLists :
          /\ detected_products' = dets
          /\ result' = check_compliance(planogram, dets)
          /\ after_call' = [planogram |-> planogram,
                            detected_products |-> detections_after(dets)]
    /\ impl' = "legacy"
    /\ UNCHANGED <<productVars, planogram, gridVars, normalizerVars, storage, update, request>>

NextQuantities == CheckComplianceQuantities

SpecQuantities == InitQuantities /\ [][NextQuantities]_vars

(***************************************************************************)
(* The grid state machine: one upload, sent to /analyze or to /detect-grid *)
(***************************************************************************)
\* contour centres (y + h // 2, x + w // 2) in the normalized image
found_separators(marks, size) == [i \in DOMAIN marks |-> (marks[i] * size) \div 100]

InitGrid ==
    /\ planogram = [id |-> <<"p","1">>, name |-> PlanogramName, shelves |-> <<>>]
    /\ detected_products = <<>>
    /\ result = NoResult
    /\ impl = "none"
    /\ \E size \in OriginalSizes, sm \in ShelfMarkLists, pm \in ProductMarkLists :
          image = [original_width |-> size[1], original_height |-> size[2],
                   shelf_marks |-> sm, product_marks |-> pm]
    /\ grid = NoGrid
    /\ endpoint = "none"
    /\ boxes = <<>>
    /\ name_arg = <<>>
    /\ name_result = NotCalled
    /\ storage = json_dump(planogram)
    /\ after_call = NotCalled
    /\ products_dir = {}
    /\ update = NoUpdate
    /\ request = NoRequest

\* /analyze: normalize the upload, then detect_shelf_layout on the result
DetectShelfLayout ==
    /\ endpoint = "none"
    /\ LET n == analyze_normalized_size(image.original_width, image.original_height)
       IN  grid' = detect_shelf_layout(n.width, n.height,
                                       found_separators(image.shelf_marks, n.height),
                                       found_separators(image.product_marks, n.width))
    /\ endpoint' = "analyze"
    /\ UNCHANGED <<productVars, complianceVars, image, boxes, normalizerVars, storeVars>>

\* /detect-grid: normalize the upload, then the handler's own detection
DetectGrid ==
    /\ endpoint = "none"
    /\ LET n == detect_grid_normalized_size(image.original_width, image.original_height)
       IN  grid' = detect_grid(n.width, n.height,
                               found_separators(image.shelf_marks, n.height),
                               found_separators(image.product_marks, n.width))
    /\ endpoint' = "detect_grid"
    /\ UNCHANGED <<productVars, complianceVars, image, boxes, normalizerVars, storeVars>>

\* image-recognition-api /analyze (endpoints.py): normalize, detect the grid
AnalyzeApp ==
    /\ endpoint = "none"
    /\ LET n == normalize_image(image.original_width, image.original_height)
       IN  grid' = IF resize_fails(n) THEN GridRaised("resize")
                   ELSE analyze_image_grid(n.width, n.height,
                                           found_separators(image.shelf_marks, n.height),
                                           found_separators(image.product_marks, n.width))
    /\ endpoint' = "app_analyze"
    /\ UNCHANGED <<productVars, complianceVars, image, boxes, normalizerVars, storeVars>>

\* ImageService.detect_grid of image_service.py
ServiceDetectGrid ==
    /\ endpoint = "none"
    /\ LET n == _normalize_image(image.original_width, image.original_height)
       IN  grid' = IF resize_fails(n) THEN GridRaised("resize")
                   ELSE service_detect_grid(n.width, n.height,
                                            found_separators(image.shelf_marks, n.height),
                                            found_separators(image.product_marks, n.width))
    /\ endpoint' = "service_detect_grid"
    /\ UNCHANGED <<productVars, complianceVars, image, boxes, normalizerVars, storeVars>>

\* ImageService.analyze_image of image_service.py: normalize, _detect_shelf_layout
ServiceDetectShelfLayout ==
    /\ endpoint = "none"
    /\ LET n == _normalize_image(image.original_width, image.original_height)
       IN  grid' = IF resize_fails(n) THEN GridRaised("resize")
                   ELSE _detect_shelf_layout(n.width, n.height,
                                             found_separators(image.shelf_marks, n.height),
                                             found_separators(image.product_marks, n.width))
    /\ endpoint' = "service_analyze"
    /\ UNCHANGED <<productVars, complianceVars, image, boxes, normalizerVars, storeVars>>

NextGrid ==
    \/ DetectShelfLayout \/ DetectGrid
    \/ AnalyzeApp \/ ServiceDetectGrid \/ ServiceDetectShelfLayout

SpecGrid == InitGrid /\ [][NextGrid]_vars

(***************************************************************************)
(* /analyze after the grid: one detected_products entry per detector box   *)
(***************************************************************************)
MaxBoxes == 2   \* boxes the detector returns for one image

\* uploads and separator findings for the box placement
BoxImages ==
    { [original_width |-> size[1], original_height |-> size[2],
       shelf_marks |-> sm, product_marks |-> pm] :
        size \in { <<600, 600>>, <<1800, 600>>, <<1, 1000>> },
        sm \in { <<>>, <<50>> }, pm \in { <<16, 90>>, <<50>> } }

\* extents of a box along one axis: before the image, on a grid line, just
\* past a grid line, beyond the image
Spans(lines, size) ==
    { <<-20, -9>>, <<size + 1, size + 20>> }
        \cup { <<lines[i], lines[i]>> : i \in DOMAIN lines }
        \cup { <<lines[i], lines[i] + 3>> : i \in DOMAIN lines }

\* boxes.xyxy as the detector may return them for the grid g, inside the image
\* or partly or wholly outside of it
DetectorBoxes(g) ==
    { [label |-> L_Coke, xyxy |-> <<xs[1], g.height \div 2, xs[2], g.height \div 2>>] :
        xs \in Spans(g.v_lines, g.width) }
    \cup
    { [label |-> L_Coke, xyxy |-> <<g.width \div 2, ys[1], g.width \div 2, ys[2]>>] :
        ys \in Spans(g.h_lines, g.height) }

InitBoxes ==
    /\ planogram = [id |-> <<"p","1">>, name |-> PlanogramName, shelves |-> <<>>]
    /\ detected_products = <<>>
    /\ result = NoResult
    /\ impl = "none"
    /\ image \in BoxImages
    /\ grid = NoGrid
    /\ endpoint = "none"
    /\ boxes = <<>>
    /\ name_arg = <<>>
    /\ name_result = NotCalled
    /\ storage = json_dump(planogram)
    /\ after_call = NotCalled
    /\ products_dir = {}
    /\ update = NoUpdate
    /\ request = NoRequest

\* API For Image /analyze: one pass of "for box in boxes"
ProcessBox ==
    /\ endpoint = "analyze"
    /\ grid.status = "returned"
    /\ Len(boxes) < MaxBoxes
    /\ \E box \in DetectorBoxes(grid) :
          LET cell == assign_coordinates(box, grid.rows, grid.columns,
                                         grid.h_lines, grid.v_lines)
          IN  /\ boxes' = Append(boxes, box)
              /\ detected_products' =
                    Append(detected_products,
                           [label |-> box.label, row |-> cell.row,
                            column |-> cell.column, quantity |-> 1])
    /\ UNCHANGED <<productVars, planogram, result, impl, image, grid, endpoint, normalizerVars, storeVars>>

\* ImageService.detect_products: one pass of "for box in boxes"
ProcessBoxApp ==
    /\ endpoint = "app_analyze"
    /\ grid.status = "returned"
    /\ Len(boxes) < MaxBoxes
    /\ \E box \in DetectorBoxes(grid) :
          LET cell == image_assign_coordinates(box, [rows |-> grid.rows, columns |-> grid.columns],
                                               grid.h_lines, grid.v_lines)
          IN  /\ boxes' = Append(boxes, box)
              /\ detected_products' =
                    Append(detected_products,
                           [label |-> box.label, row |-> cell.row,
                            column |-> cell.column, quantity |-> 1])
    /\ UNCHANGED <<productVars, planogram, result, impl, image, grid, endpoint, normalizerVars, storeVars>>

NextBoxes == DetectShelfLayout \/ AnalyzeApp \/ ProcessBox \/ ProcessBoxApp

SpecBoxes == InitBoxes /\ [][NextBoxes]_vars

(***************************************************************************)
(* Calls of _normalize_product_name                                        *)
(***************************************************************************)
UpperChar(c) ==
    IF \E i \in DOMAIN LowerChars : LowerChars[i] = c
    THEN UpperChars[CHOOSE i \in DOMAIN LowerChars : LowerChars[i] = c]
    ELSE c

upper(s) == [i \in 1..Len(s) |-> UpperChar(s[i])]

\* first letter of every word in upper case
title(s) ==
    [i \in 1..Len(s) |->
        IF i = 1 \/ s[i - 1] \in {" ", "-", "_"} THEN UpperChar(s[i]) ELSE s[i]]

w_coca  == <<"c","o","c","a">>
w_cola  == <<"c","o","l","a">>
w_shelf == <<"s","h","e","l","f">>
w_space == <<"s","p","a","c","e">>

InnerSeparators == {" ", "-", "_"}

\* the synonym sets, the inner space written as ' ', '-' or '_'
ColaSpellings ==
    { w_coca \o <<sep>> \o w_cola : sep \in InnerSeparators } \cup {s_coke, s_cocacola}
EmptySpellings ==
    { s_empty \o <<sep>> \o w_shelf : sep \in InnerSeparators }
        \cup { s_empty \o <<sep>> \o w_space : sep \in InnerSeparators }
        \cup {s_empty, s_emptyspace}

LetterCases(s) == {s, upper(s), title(s)}
Paddings(s) == {s, <<" ">> \o s, s \o <<"\t">>, <<" ", " ">> \o s \o <<"\n">>}
Written(spellings) == UNION { Paddings(c) : c \in UNION { LetterCases(l) : l \in spellings } }

ColaNames  == Written(ColaSpellings)
EmptyNames == Written(EmptySpellings)

\* labels outside the synonym sets
OtherNames ==
    { L_Sprite, L_SPRITE,
      <<" ","P","e","p","s","i","-","M","a","x"," ">>,
      <<"_","c","o","k","e","_">>,
      <<"c","o","c","a"," "," ","c","o","l","a">>,
      <<"E","m","p","t","y","_","B","o","x">>,
      <<" ">> }

ProductNames == ColaNames \cup EmptyNames \cup OtherNames \cup { <<>> }

InitNormalize ==
    /\ planogram = [id |-> <<"p","1">>, name |-> PlanogramName, shelves |-> <<>>]
    /\ detected_products = <<>>
    /\ result = NoResult
    /\ impl = "none"
    /\ image = NoImage
    /\ grid = NoGrid
    /\ endpoint = "none"
    /\ boxes = <<>>
    /\ name_arg \in ProductNames
    /\ name_result = NotCalled
    /\ storage = json_dump(planogram)
    /\ after_call = NotCalled
    /\ products_dir = {}
    /\ update = NoUpdate
    /\ request = NoRequest

\* one call of PlanogramService._normalize_product_name
NormalizeProductName ==
    /\ name_result = NotCalled
    /\ name_result' = [status |-> "returned", value |-> _normalize_product_name(name_arg)]
    /\ UNCHANGED <<productVars, complianceVars, gridVars, name_arg, storeVars>>

NextNormalize == NormalizeProductName

SpecNormalize == InitNormalize /\ [][NextNormalize]_vars

(***************************************************************************)
(* The store state machine: an /analyze request that names a stored        *)
(* planogram while update_planogram is called for the same planogram from  *)
(* another worker.  Each step is one file operation of the two calls.      *)
(***************************************************************************)
\* versions of the planogram: the one in the store and the bodies of the update
StoredPlanograms == {pl \in Planograms : Len(pl.shelves) <= 1}
PlanogramCreates == {[name |-> pl.name, shelves |-> pl.shelves] : pl \in StoredPlanograms}

\* detection lists as /analyze builds them
AnalyzeDetectionLists == SeqsUpTo(WellFormedDetections, MaxDetections)

\* Planogram(id=planogram_id, ..., **planogram_update.dict())
updated(planogram_id, planogram_update) ==
    [id |-> planogram_id, name |-> planogram_update.name,
     shelves |-> planogram_update.shelves]

NotFound == [status |-> "none"]
Null     == [status |-> "null"]

\* get_planogram: the file exists; any exception of open/json.load/Planogram(**data)
\* is logged and None is returned
get_planogram(file) ==
    LET data == json_load(file) IN
    IF data.status = "loaded" THEN [status |-> "found", planogram |-> data.data]
    ELSE NotFound

\* /analyze: compliance_result stays None unless a planogram was found and
\* check_compliance returned
analyze_compliance(loaded, dets) ==
    IF loaded.status = "found"
    THEN LET compliance_result == check_compliance(loaded.planogram, dets) IN
         IF compliance_result.status = "returned" THEN compliance_result ELSE Null
    ELSE Null

InitStore ==
    /\ planogram \in StoredPlanograms
    /\ detected_products \in AnalyzeDetectionLists
    /\ result = NoResult
    /\ impl = "none"
    /\ image = NoImage
    /\ grid = NoGrid
    /\ endpoint = "none"
    /\ boxes = <<>>
    /\ name_arg = <<>>
    /\ name_result = NotCalled
    /\ storage = json_dump(planogram)
    /\ after_call = NotCalled
    /\ products_dir = {}
    /\ update \in {[pc |-> "called", planogram_update |-> body] : body \in PlanogramCreates}
    /\ request = [pc |-> "called"]

\* update_planogram: read created_at from the existing file and build `updated`
UpdateReadExisting ==
    /\ update.pc = "called"
    /\ update' = [update EXCEPT !.pc = "built"]
    /\ UNCHANGED <<productVars, complianceVars, gridVars, normalizerVars, storage, after_call, request>>

\* update_planogram: open(path, 'w') truncates the file
UpdateOpen ==
    /\ update.pc = "built"
    /\ storage' = EmptyFile
    /\ update' = [update EXCEPT !.pc = "opened"]
    /\ UNCHANGED <<productVars, complianceVars, gridVars, normalizerVars, after_call, request>>

\* update_planogram: json.dump fills the buffer and part of the document is flushed
UpdateFlush ==
    /\ update.pc = "opened"
    /\ storage' = json_dump_unfinished(updated(planogram.id, update.planogram_update))
    /\ update' = [update EXCEPT !.pc = "flushing"]
    /\ UNCHANGED <<productVars, complianceVars, gridVars, normalizerVars, after_call, request>>

\* update_planogram: the with block closes the file, the whole document is in it
UpdateClose ==
    /\ update.pc \in {"opened", "flushing"}
    /\ storage' = json_dump(updated(planogram.id, update.planogram_update))
    /\ update' = [update EXCEPT !.pc = "returned"]
    /\ UNCHANGED <<productVars, complianceVars, gridVars, normalizerVars, after_call, request>>

\* /analyze: planogram = planogram_service.get_planogram(planogram_id)
AnalyzeGetPlanogram ==
    /\ request.pc = "called"
    /\ request' = [pc |-> "loaded", planogram |-> get_planogram(storage)]
    /\ UNCHANGED <<productVars, complianceVars, gridVars, normalizerVars, storage, after_call, update>>

\* /analyze: if planogram: compliance_result = check_compliance(...); respond
AnalyzeCheckCompliance ==
    /\ request.pc = "loaded"
    /\ request' = [pc |-> "responded", planogram |-> request.planogram,
                   compliance_result |->
                       analyze_compliance(request.planogram, detected_products)]
    /\ UNCHANGED <<productVars, complianceVars, gridVars, normalizerVars, storage, after_call, update>>

NextStore ==
    \/ UpdateReadExisting \/ UpdateOpen \/ UpdateFlush \/ UpdateClose
    \/ AnalyzeGetPlanogram \/ AnalyzeCheckCompliance

SpecStore == InitStore /\ [][NextStore]_vars

(***************************************************************************)
(* The /analyze state machine: one upload with an optional planogram_id,   *)
(* answered by one of the three handlers (API For Image/main.py,           *)
(* image-recognition-api endpoints.py, ImageService.analyze_image).        *)
(* Texts are kept as tuples of their parts.                                *)
(***************************************************************************)
HTTPException(status_code, detail) ==
    [type |-> "HTTPException", status_code |-> status_code, detail |-> detail]

InvalidImageFile == HTTPException(400, <<"Invalid image file.">>)

\* logger.error(traceback.format_exc()) in a function that imports traceback
\* further down: the name is local and not yet bound
UnboundLocalError(variable) == [type |-> "UnboundLocalError", key |-> variable]

\* str(e)
str(e) ==
    IF e.type = "HTTPException" THEN <<"HTTPException", e.detail[1]>>
    ELSE <<e.type, e.key>>

Completed(dets, compliance) ==
    [outcome |-> "returned", detected_products |-> dets, compliance_result |-> compliance]
Failed(e) == [outcome |-> "raised", error |-> e]

\* `except Exception as e: ... raise HTTPException(status_code=500, detail=str(e))`
\* around the whole handler body; HTTPException is an Exception
reraise_as_500(body) ==
    IF body.outcome = "raised" THEN Failed(HTTPException(500, str(body.error)))
    ELSE body

\* what the framework sends: the returned body, or the HTTPException's status
response_of(body) ==
    IF body.outcome = "raised"
    THEN [status_code |-> body.error.status_code, detail |-> body.error.detail]
    ELSE [status_code |-> 200, detected_products |-> body.detected_products,
          compliance_result |-> body.compliance_result]

\* the planogram the handler finds for planogram_id; no id and an unknown id give none
load_planogram(planogram_id, pl) ==
    IF planogram_id = "known" THEN [status |-> "found", planogram |-> pl] ELSE NotFound

\* API For Image/main.py analyze_image: no try around the handler body
main_analyze_image(decodable, planogram_id, pl, dets) ==
    IF ~decodable THEN Failed(InvalidImageFile)
    ELSE Completed(dets, analyze_compliance(load_planogram(planogram_id, pl), dets))

\* ImageService.analyze_image: the same compliance block, `import traceback`
\* right before its use; the whole body inside try / except Exception
service_analyze_image(decodable, planogram_id, pl, dets) ==
    reraise_as_500(
        IF ~decodable THEN Failed(InvalidImageFile)
        ELSE LET loaded == load_planogram(planogram_id, pl)
                 checked == check_compliance_app(loaded.planogram, dets)
             IN  IF loaded.status = "found" /\ checked.status = "returned"
                 THEN Completed(dets, checked)
                 ELSE Completed(dets, Null))

\* endpoints.py analyze_image: the except branch of the compliance block calls
\* traceback.format_exc() while `import traceback` stands in the outer except
endpoints_analyze_image(decodable, planogram_id, pl, dets) ==
    reraise_as_500(
        IF ~decodable THEN Failed(InvalidImageFile)
        ELSE LET loaded == load_planogram(planogram_id, pl)
                 checked == check_compliance_domain(as_domain_planogram(loaded.planogram), dets)
             IN  IF loaded.status # "found" THEN Completed(dets, Null)
                 ELSE IF checked.status = "returned" THEN Completed(dets, checked)
                 ELSE Failed(UnboundLocalError("traceback")))

PlanogramIds == {"absent", "known", "unknown"}

InitAnalyze ==
    /\ planogram \in StoredPlanograms
    /\ detected_products \in DetectionLists
    /\ result = NoResult
    /\ impl = "none"
    /\ image = NoImage
    /\ grid = NoGrid
    /\ endpoint = "none"
    /\ boxes = <<>>
    /\ name_arg = <<>>
    /\ name_result = NotCalled
    /\ storage = json_dump(planogram)
    /\ after_call = NotCalled
    /\ products_dir = {}
    /\ update = NoUpdate
    /\ request \in {[pc |-> "received", decodable |-> d, planogram_id |-> id] :
                       d \in BOOLEAN, id \in PlanogramIds}

\* POST /analyze of API For Image/main.py
AnalyzeMain ==
    /\ request.pc = "received"
    /\ request' = [pc |-> "responded", decodable |-> request.decodable,
                   planogram_id |-> request.planogram_id,
                   handler |-> "main",
                   response |-> response_of(main_analyze_image(
                       request.decodable, request.planogram_id,
                       planogram, detected_products))]
    /\ UNCHANGED <<productVars, complianceVars, gridVars, normalizerVars, storage, after_call, update>>

\* POST /analyze of image-recognition-api (endpoints.py)
AnalyzeEndpoints ==
    /\ request.pc = "received"
    /\ request' = [pc |-> "responded", decodable |-> request.decodable,
                   planogram_id |-> request.planogram_id,
                   handler |-> "endpoints",
                   response |-> response_of(endpoints_analyze_image(
                       request.decodable, request.planogram_id,
                       planogram, detected_products))]
    /\ UNCHANGED <<productVars, complianceVars, gridVars, normalizerVars, storage, after_call, update>>

\* ImageService.analyze_image of image_service.py
AnalyzeService ==
    /\ request.pc = "received"
    /\ request' = [pc |-> "responded", decodable |-> request.decodable,
                   planogram_id |-> request.planogram_id,
                   handler |-> "image_service",
                   response |-> response_of(service_analyze_image(
                       request.decodable, request.planogram_id,
                       planogram, detected_products))]
    /\ UNCHANGED <<productVars, complianceVars, gridVars, normalizerVars, storage, after_call, update>>

NextAnalyze == AnalyzeMain \/ AnalyzeEndpoints \/ AnalyzeService

SpecAnalyze == InitAnalyze /\ [][NextAnalyze]_vars

(***************************************************************************)
(* The product store state machine: ProductService of image-recognition-   *)
(* api is constructed again and again over one storage directory.  A file  *)
(* is its id (the name's slug and the uuid suffix) with the name stored.   *)
(***************************************************************************)
MaxSuffix == 3   \* distinct values of str(uuid.uuid4())[:8] that are drawn
Suffixes == 1..MaxSuffix

L_Fanta == <<"F","a","n","t","a">>

\* names of the default_products list
default_products == <<L_CocaCola, L_Sprite, L_Fanta>>

\* storage_dir/default_products.json, the file _load_default_products looks for
default_file ==
    [id |-> [slug |-> <<"d","e","f","a","u","l","t","_","p","r","o","d","u","c","t","s">>,
             suffix |-> 0],
     name |-> <<>>]

\* create_product: the id is the slug of the name and a uuid suffix; open(path, 'w')
\* replaces a file of the same id
create_product(dir, product_name, suffix) ==
    LET product_id == [slug |-> replace(lower(product_name), " ", "-"), suffix |-> suffix]
    IN  {f \in dir : f.id # product_id} \cup {[id |-> product_id, name |-> product_name]}

RECURSIVE create_products(_, _, _, _)
create_products(dir, product_names, suffixes, i) ==
    IF i > Len(product_names) THEN dir
    ELSE create_products(create_product(dir, product_names[i], suffixes[i]),
                         product_names, suffixes, i + 1)

\* _load_default_products: create the three products unless default_products.json exists
_load_default_products(dir, suffixes) ==
    IF default_file \in dir THEN dir
    ELSE create_products(dir, default_products, suffixes, 1)

\* list_products: every .json file except default_products.json
list_products(dir) == {f \in dir : f # default_file}

InitProducts ==
    /\ planogram = [id |-> <<"p","1">>, name |-> PlanogramName, shelves |-> <<>>]
    /\ detected_products = <<>>
    /\ result = NoResult
    /\ impl = "none"
    /\ image = NoImage
    /\ grid = NoGrid
    /\ endpoint = "none"
    /\ boxes = <<>>
    /\ name_arg = <<>>
    /\ name_result = NotCalled
    /\ storage = json_dump(planogram)
    /\ after_call = NotCalled
    /\ update = NoUpdate
    /\ request = NoRequest
    /\ products_dir \in {{}, {default_file}}

\* ProductService.__init__: makedirs, then _load_default_products
ConstructProductService ==
    /\ \E suffixes \in [1..Len(default_products) -> Suffixes] :
          products_dir' = _load_default_products(products_dir, suffixes)
    /\ UNCHANGED <<complianceVars, gridVars, normalizerVars, storeVars>>

NextProducts == ConstructProductService

SpecProducts == InitProducts /\ [][NextProducts]_vars

(***************************************************************************)
(* Vocabulary of the claims, read off the inputs and the returned result   *)
(***************************************************************************)
Returned == result.status = "returned"

\* index pairs <<shelf, section>> of the positions a planogram declares
DeclaredAt(pl) ==
    UNION { { <<i, j>> : j \in DOMAIN pl.shelves[i].sections } : i \in DOMAIN pl.shelves }
SectionAt(pl, p) == pl.shelves[p[1]].sections[p[2]]
CellAt(pl, p)    == <<pl.shelves[p[1]].row, SectionAt(pl, p).column>>
DeclaredCells(pl) == { CellAt(pl, p) : p \in DeclaredAt(pl) }

DetectionCell(d) == <<d.row, d.column>>
EmptyShelfAt(dets, cell) ==
    \E i \in DOMAIN dets : DetectionCell(dets[i]) = cell /\ is_empty_label(dets[i].label)
ProductIndexesAt(dets, cell) ==
    { i \in DOMAIN dets : DetectionCell(dets[i]) = cell /\ ~is_empty_label(dets[i].label) }
\* the label recorded for a cell is the label of its first product detection
RecordedLabel(dets, cell) ==
    dets[CHOOSE i \in ProductIndexesAt(dets, cell) :
            \A j \in ProductIndexesAt(dets, cell) : i <= j].label

NormalizedMatch(section, label) ==
    \/ _normalize_product_name(label) = _normalize_product_name(section.expected_product)
    \/ \E v \in DOMAIN section.allowed_variants :
          _normalize_product_name(label) = _normalize_product_name(section.allowed_variants[v])

IssuesAtCell(res, cell) ==
    { k \in DOMAIN res.issues : <<res.issues[k].row, res.issues[k].column>> = cell }

ScoreIs(res, n) == res.compliance_score.num = n * res.compliance_score.den
ScoreAtLeast(a, b) ==
    a.compliance_score.num * b.compliance_score.den
        >= b.compliance_score.num * a.compliance_score.den

(***************************************************************************)
(* C1: the score is 100 * correct_placements / total_positions, where      *)
(* total_positions is the number of sections the planogram declares        *)
(* (detected or not), it is 0 for a planogram that declares nothing, and   *)
(* is_compliant holds exactly when the issue list is empty.                *)
(***************************************************************************)
C1_ScoreOverDeclaredPositions ==
    Returned =>
        LET declared == Cardinality(DeclaredAt(planogram)) IN
        /\ result.total_positions = declared
        /\ result.compliance_score.num * declared
               = 100 * result.correct_placements * result.compliance_score.den
        /\ (declared = 0 => ScoreIs(result, 0))
        /\ result.is_compliant <=> (result.issues = <<>>)

\* a half-correct shelf: one placement right, one position without any detection
C1_Witness ==
    /\ Returned /\ impl = "legacy"
    /\ result.total_positions = 2 /\ result.correct_placements = 1
    /\ \E k \in DOMAIN result.issues : result.issues[k].issue_type = "undetected"
    /\ ScoreIs(result, 50)

(***************************************************************************)
(* C2: with total_positions > 0, the score is 100 if and only if the issue *)
(* list is empty, if and only if is_compliant.                             *)
(***************************************************************************)
C2_FullScoreIffNoIssues ==
    (Returned /\ result.total_positions > 0) =>
        /\ ScoreIs(result, 100) <=> (result.issues = <<>>)
        /\ ScoreIs(result, 100) <=> result.is_compliant

C2_Witness ==
    /\ Returned /\ result.total_positions = 2
    /\ ScoreIs(result, 100) /\ result.issues = <<>> /\ result.is_compliant

(***************************************************************************)
(* C3: at a cell that holds a product detection and no empty-shelf         *)
(* detection, a declared section is a correct placement exactly when the   *)
(* normalized recorded label equals the normalized expected_product or a   *)
(* normalized allowed_variant; every other section declared there gets one *)
(* wrong_product issue of severity high and is not counted as correct.     *)
(***************************************************************************)
ProductOnlyCell(dets, cell) ==
    ProductIndexesAt(dets, cell) # {} /\ ~EmptyShelfAt(dets, cell)

C3_MatchByNormalizedName ==
    (Returned /\ impl = "legacy") =>
        LET matching == { p \in DeclaredAt(planogram) :
                            /\ ProductOnlyCell(detected_products, CellAt(planogram, p))
                            /\ NormalizedMatch(SectionAt(planogram, p),
                                   RecordedLabel(detected_products, CellAt(planogram, p))) }
        IN
        /\ result.correct_placements = Cardinality(matching)
        /\ \A cell \in DeclaredCells(planogram) :
              ProductOnlyCell(detected_products, cell) =>
                 LET wrong == { p \in DeclaredAt(planogram) \ matching :
                                  CellAt(planogram, p) = cell }
                 IN  /\ Cardinality(IssuesAtCell(result, cell)) = Cardinality(wrong)
                     /\ \A k \in IssuesAtCell(result, cell) :
                           /\ result.issues[k].issue_type = "wrong_product"
                           /\ result.issues[k].severity = "high"
                           /\ \E p \in wrong :
                                 result.issues[k].expected[2]
                                     = SectionAt(planogram, p).expected_product

\* "Coke" counted for an expected "Coca-Cola", and "Sprite" flagged at another position
C3_Witness ==
    /\ Returned /\ impl = "legacy"
    /\ result.correct_placements = 1
    /\ \E i \in DOMAIN detected_products : detected_products[i].label = L_Coke
    /\ \E k \in DOMAIN result.issues :
          /\ result.issues[k].issue_type = "wrong_product"
          /\ result.issues[k].found[1] = L_Sprite

(***************************************************************************)
(* C4: a detection is filed under empty_spaces, and not under              *)
(* product_grid, exactly when _normalize_product_name maps its label to    *)
(* "empty"; every other detection is filed under product_grid.             *)
(***************************************************************************)
C4_EmptyMarkerIffNormalizedEmpty ==
    (Returned /\ impl = "legacy") =>
        LET built == build_product_grid(detected_products, 1, EmptyGrid)
            NormalizedEmpty(i) == _normalize_product_name(detected_products[i].label) = s_empty
        IN
        /\ built.empty_spaces =
              { DetectionCell(detected_products[i]) :
                    i \in { j \in DOMAIN detected_products : NormalizedEmpty(j) } }
        /\ DOMAIN built.product_grid =
              { DetectionCell(detected_products[i]) :
                    i \in { j \in DOMAIN detected_products : ~NormalizedEmpty(j) } }

(***************************************************************************)
(* C5: a declared position whose cell received an empty-shelf detection    *)
(* gets exactly one issue, out_of_stock with severity high, and is never   *)
(* counted as correct, even if a matching product was detected there too.  *)
(***************************************************************************)
C5_EmptyShelfTakesPrecedence ==
    Returned =>
        /\ \A cell \in DeclaredCells(planogram) :
              EmptyShelfAt(detected_products, cell) =>
                 /\ Cardinality(IssuesAtCell(result, cell))
                        = Cardinality({ p \in DeclaredAt(planogram) : CellAt(planogram, p) = cell })
                 /\ \A k \in IssuesAtCell(result, cell) :
                       /\ result.issues[k].issue_type = "out_of_stock"
                       /\ result.issues[k].severity = "high"
        /\ result.correct_placements <=
              Cardinality({ p \in DeclaredAt(planogram) :
                              ~EmptyShelfAt(detected_products, CellAt(planogram, p)) })

\* the expected product and an empty-shelf marker detected in the same declared cell
C5_Witness ==
    /\ Returned /\ impl = "legacy"
    /\ \E p \in DeclaredAt(planogram) :
          LET cell == CellAt(planogram, p) IN
          /\ EmptyShelfAt(detected_products, cell)
          /\ ProductIndexesAt(detected_products, cell) # {}
          /\ NormalizedMatch(SectionAt(planogram, p), RecordedLabel(detected_products, cell))
          /\ \E k \in IssuesAtCell(result, cell) : result.issues[k].issue_type = "out_of_stock"
          /\ result.correct_placements = 0

(***************************************************************************)
(* C6: a detection added at a cell no section declares, whatever its       *)
(* label and wherever it enters the list, leaves the whole outcome of      *)
(* check_compliance unchanged.                                             *)
(***************************************************************************)
InsertAt(seq, i, e) == SubSeq(seq, 1, i) \o <<e>> \o SubSeq(seq, i + 1, Len(seq))
RemoveAt(seq, i)    == SubSeq(seq, 1, i - 1) \o SubSeq(seq, i + 1, Len(seq))

WellFormed(d) == {"row", "column", "quantity"} \subseteq DOMAIN d

\* the same call on the detection list without its i-th entry
WithoutDetection(i) ==
    IF impl = "app" THEN check_compliance_app(planogram, RemoveAt(detected_products, i))
    ELSE check_compliance(planogram, RemoveAt(detected_products, i))

C6_UndeclaredCellsIgnored ==
    impl # "none" =>
        \A i \in DOMAIN detected_products :
            ( /\ WellFormed(detected_products[i])
              /\ DetectionCell(detected_products[i]) \notin DeclaredCells(planogram) )
            => result = WithoutDetection(i)

\* a run whose list holds an empty-shelf marker at an undeclared cell next to a
\* correct placement, with the same outcome as the run without the marker
C6_Witness ==
    /\ Returned /\ impl = "legacy" /\ result.correct_placements = 1
    /\ \E i \in DOMAIN detected_products :
          /\ DetectionCell(detected_products[i]) \notin DeclaredCells(planogram)
          /\ is_empty_label(detected_products[i].label)
          /\ result = WithoutDetection(i)

(***************************************************************************)
(* C7 as stated: when a declared position yields an undetected issue,      *)
(* adding one detection at its cell whose label matches the section's      *)
(* expected product strictly increases correct_placements and does not     *)
(* decrease the score.                                                     *)
(***************************************************************************)
\* detection i is the only detection of a declared cell and its label
\* normalizes to the expected product of section p declared there
AddedMatchingDetection(i, p) ==
    /\ WellFormed(detected_products[i])
    /\ DetectionCell(detected_products[i]) = CellAt(planogram, p)
    /\ \A j \in DOMAIN detected_products :
          DetectionCell(detected_products[j]) = CellAt(planogram, p) => j = i
    /\ _normalize_product_name(detected_products[i].label)
           = _normalize_product_name(SectionAt(planogram, p).expected_product)
    /\ WithoutDetection(i).status = "returned"
    /\ \E k \in IssuesAtCell(WithoutDetection(i), CellAt(planogram, p)) :
          WithoutDetection(i).issues[k].issue_type = "undetected"

RaisesCorrectPlacements(i) ==
    /\ result.correct_placements > WithoutDetection(i).correct_placements
    /\ ScoreAtLeast(result, WithoutDetection(i))

C7_MatchingDetectionRaisesCorrect ==
    (Returned /\ impl = "legacy") =>
        \A i \in DOMAIN detected_products : \A p \in DeclaredAt(planogram) :
            AddedMatchingDetection(i, p) => RaisesCorrectPlacements(i)

(***************************************************************************)
(* C7 amended: the same, provided the added label is not one of the        *)
(* empty-shelf labels (empty_shelf, empty, empty_space, emptyspace in any  *)
(* letter case), which check_compliance files as an empty space even when  *)
(* the planogram expects a product of that name.                           *)
(***************************************************************************)
C7_MatchingProductRaisesCorrect ==
    (Returned /\ impl = "legacy") =>
        \A i \in DOMAIN detected_products : \A p \in DeclaredAt(planogram) :
            (AddedMatchingDetection(i, p) /\ ~is_empty_label(detected_products[i].label))
                => RaisesCorrectPlacements(i)

\* "Coke" arrives at a position expecting "Coca-Cola" next to another declared position
C7_Witness ==
    /\ Returned /\ impl = "legacy" /\ result.total_positions = 2
    /\ \E i \in DOMAIN detected_products : \E p \in DeclaredAt(planogram) :
          /\ AddedMatchingDetection(i, p)
          /\ detected_products[i].label = L_Coke
          /\ result.correct_placements = WithoutDetection(i).correct_placements + 1

(***************************************************************************)
(* C8: a detection without its row or its column makes check_compliance    *)
(* fail with an error that names a missing field, and no ComplianceResult  *)
(* is returned; when every detection carries a quantity the field named is *)
(* the first one missing from the first such detection.                    *)
(***************************************************************************)
LacksPosition(d) == ~({"row", "column"} \subseteq DOMAIN d)

GridReported == grid.status = "returned"

\* the two handlers of API For Image/main.py
MainHandlers == {"analyze", "detect_grid"}

\* C9: every grid reported by detect_shelf_layout and by /detect-grid, from
\* the structural path or from the fallback, has 1 <= rows <= 6 and
\* 1 <= columns <= 8, and is neither one row of at most two columns nor one
\* column of at most two rows.
C9_GridWithinBounds ==
    (GridReported /\ endpoint \in MainHandlers) =>
        /\ 1 <= grid.rows /\ grid.rows <= 6
        /\ 1 <= grid.columns /\ grid.columns <= 8
        /\ ~(grid.rows = 1 /\ grid.columns <= 2)
        /\ ~(grid.columns = 1 /\ grid.rows <= 2)

\* /analyze accepted a structural grid of one row and three columns, the
\* smallest single-row grid the validation lets through
C9_Witness ==
    /\ GridReported
    /\ endpoint = "analyze"
    /\ grid.detection_method = "computer_vision"
    /\ grid.rows = 1
    /\ grid.columns = 3

\* average cell height below 30 px or above 0.8 * height, or average cell
\* width below 40 px or above 0.7 * width (height / rows, width / columns)
AverageCellOutOfRange(g) ==
    \/ g.height < 30 * g.rows
    \/ 10 * g.height > 8 * g.height * g.rows
    \/ g.width < 40 * g.columns
    \/ 10 * g.width > 7 * g.width * g.columns

\* C10: a structurally detected grid whose average cell height is below
\* 30 px or above 0.8 * height, or whose average cell width is below 40 px or
\* above 0.7 * width, is rejected and the fallback grid is reported instead.
C10_CellSizeCheckRejects ==
    (GridReported /\ grid.detection_method = "computer_vision")
        => ~AverageCellOutOfRange(grid)


StrictlyIncreasing(lines) == \A i \in 1..(Len(lines) - 1) : lines[i] < lines[i + 1]

\* C11: on the structural path and on the fallback path alike, h_lines has
\* rows + 1 entries and v_lines has columns + 1 entries, both strictly
\* increasing, both starting at 0, h_lines ending at height and v_lines at
\* width.
C11_GridLinesWellFormed ==
    (GridReported /\ endpoint \in MainHandlers) =>
        /\ Len(grid.h_lines) = grid.rows + 1
        /\ Len(grid.v_lines) = grid.columns + 1
        /\ StrictlyIncreasing(grid.h_lines)
        /\ StrictlyIncreasing(grid.v_lines)
        /\ grid.h_lines[1] = 0 /\ grid.v_lines[1] = 0
        /\ grid.h_lines[Len(grid.h_lines)] = grid.height
        /\ grid.v_lines[Len(grid.v_lines)] = grid.width


UsedFallback == GridReported /\ grid.detection_method = "intelligent_fallback"

Clamp(x, lo, hi) == IF x < lo THEN lo ELSE IF x > hi THEN hi ELSE x

\* the fallback table as the specification states it; aspect = width / height
\* exceeds p / q exactly when q * width > p * height
FallbackTable(width, height) ==
    IF 2 * width > 5 * height
        THEN [rows |-> 1, columns |-> Clamp(width \div 150, 3, 6)]
    ELSE IF 5 * width > 9 * height
        THEN [rows |-> 2, columns |-> Clamp(width \div 120, 3, 6)]
    ELSE IF 5 * width > 6 * height
        THEN [rows |-> IF height < 500 THEN 2 ELSE 3, columns |-> Clamp(width \div 100, 3, 5)]
    ELSE IF 5 * width > 4 * height
        THEN [rows |-> 3, columns |-> Clamp(width \div 150, 2, 4)]
    ELSE [rows |-> Clamp(height \div 150, 3, 4), columns |-> Clamp(width \div 200, 2, 3)]

Pair(f) == [rows |-> f.num_rows, columns |-> f.num_cols]

\* C12: a fallback grid has the rows and columns of the fixed table for the
\* image's width and height, with strict thresholds on width / height, and
\* every copy of the fallback in the repository gives that same pair.
C12_FallbackFollowsTable ==
    UsedFallback =>
        LET table == FallbackTable(grid.width, grid.height) IN
        /\ grid.rows = table.rows /\ grid.columns = table.columns
        /\ Pair(detect_shelf_layout_fallback(grid.width, grid.height)) = table
        /\ Pair(detect_grid_fallback(grid.width, grid.height)) = table
        /\ Pair(analyze_image_fallback(grid.width, grid.height)) = table
        /\ Pair(service_detect_grid_fallback(grid.width, grid.height)) = table
        /\ Pair(_detect_shelf_layout_fallback(grid.width, grid.height)) = table

\* /detect-grid fell back on an image whose aspect ratio is exactly 2.5: the
\* band "> 2.5" does not apply, the grid has two rows
C12_Witness ==
    /\ UsedFallback
    /\ endpoint = "detect_grid"
    /\ 2 * grid.width = 5 * grid.height
    /\ grid.rows = 2


\* grid inference was entered: a handler ran and the resize before it worked
GridInferenceRan ==
    endpoint # "none" /\ ~(grid.status = "raised" /\ grid.error = "resize")

\* what the structural path of image.py does with the image of this request
StructuralOutcome ==
    LET n == normalize_image(image.original_width, image.original_height)
    IN  image_detect_grid(n.width, n.height,
                          found_separators(image.shelf_marks, n.height),
                          found_separators(image.product_marks, n.width))

NoSeparatorFound == image.shelf_marks = <<>> /\ image.product_marks = <<>>

\* C14: when line detection finds no horizontal and no vertical separator,
\* the grid reported is the fallback-table grid for the image's width and
\* height, by method intelligent_fallback, never the structural 1 x 1 grid;
\* for an aspect ratio above 2.5 it has one row and 3 to 6 columns.
C14_NoSeparatorsGivesFallback ==
    (GridReported /\ NoSeparatorFound) =>
        /\ grid.detection_method = "intelligent_fallback"
        /\ ~(grid.rows = 1 /\ grid.columns = 1)
        /\ grid.rows = FallbackTable(grid.width, grid.height).rows
        /\ grid.columns = FallbackTable(grid.width, grid.height).columns
        /\ (2 * grid.width > 5 * grid.height =>
                grid.rows = 1 /\ grid.columns \in 3..6)


Least(S) == CHOOSE x \in S : \A y \in S : x <= y

\* greedy left-to-right merge: walk the remaining candidates in ascending
\* order, keep one exactly when it is min_distance above the last one kept
RECURSIVE GreedyFrom(_, _, _)
GreedyFrom(kept, remaining, min_distance_x100) ==
    IF remaining = {} THEN kept
    ELSE LET x == Least(remaining)
         IN  GreedyFrom(IF 100 * (x - kept[Len(kept)]) >= min_distance_x100
                        THEN Append(kept, x) ELSE kept,
                        remaining \ {x}, min_distance_x100)

\* the smallest candidate is always kept
GreedyMerge(candidates, min_distance_x100) ==
    IF candidates = {} THEN <<>>
    ELSE GreedyFrom(<<Least(candidates)>>, candidates \ {Least(candidates)},
                    min_distance_x100)

\* the close-line filter of the handler that ran, applied to the candidates
\* as the contour search returned them
FilteredBy(handler, lines, min_distance_x100) ==
    CASE handler = "analyze" -> dynamic_filter_close_lines(lines, min_distance_x100)
      [] handler = "detect_grid" ->
            structure_filter_close_lines(sorted_set(set(lines)), min_distance_x100)
      [] handler = "app_analyze" -> image_filter_close_lines(lines, min_distance_x100)
      [] handler = "service_detect_grid" ->
            service_structure_filter_close_lines(lines, min_distance_x100)
      [] OTHER -> service_dynamic_filter_close_lines(lines, min_distance_x100)

\* C15: for every list of separator candidates, in whatever order the
\* contours produced them, the close-line filter returns the greedy
\* left-to-right merge of the sorted, deduplicated candidates.
C15_FilterIsGreedyMerge ==
    GridReported =>
        LET shelf   == found_separators(image.shelf_marks, grid.height)
            product == found_separators(image.product_marks, grid.width)
        IN  /\ FilteredBy(endpoint, shelf, 15 * grid.height)
                  = GreedyMerge(set(shelf), 15 * grid.height)
            /\ FilteredBy(endpoint, product, 8 * grid.width)
                  = GreedyMerge(set(product), 8 * grid.width)


(***************************************************************************)
(* Claims about the placement of boxes                                     *)
(***************************************************************************)
CenterY(box) == (box.xyxy[2] + box.xyxy[4]) \div 2
CenterX(box) == (box.xyxy[1] + box.xyxy[3]) \div 2

\* index (from 0) of the first cell whose far boundary the centre does not
\* exceed; lines[1] is the near edge of cell 0
IsFirstReaching(cell, center, lines) ==
    /\ center <= lines[cell + 2]
    /\ \A i \in 0..(cell - 1) : center > lines[i + 2]

ReachesNone(center, lines) == \A i \in 0..(Len(lines) - 2) : center > lines[i + 2]

ScannedCell(cell, center, lines) ==
    IF ReachesNone(center, lines) THEN cell = Len(lines) - 2
    ELSE IsFirstReaching(cell, center, lines)

\* C16: row is the smallest i with center_y <= h_lines[i+1], or the last row
\* when there is none, and column likewise; so a centre on an interior line
\* h_lines[k] gets row k-1 and a centre strictly between h_lines[r] and
\* h_lines[r+1] gets row r.
C16_BoundaryScanAssignment ==
    \A n \in DOMAIN boxes :
        LET cy == CenterY(boxes[n])
            cx == CenterX(boxes[n])
            d  == detected_products[n]
        IN  /\ ScannedCell(d.row, cy, grid.h_lines)
            /\ ScannedCell(d.column, cx, grid.v_lines)
            /\ \A r \in 0..(grid.rows - 1) :
                  (grid.h_lines[r + 1] < cy /\ cy < grid.h_lines[r + 2]) => d.row = r
            /\ \A k \in 1..(grid.rows - 1) :
                  (StrictlyIncreasing(grid.h_lines) /\ cy = grid.h_lines[k + 1]) => d.row = k - 1

\* a box whose centre lies exactly on an interior shelf line was placed
C16_Witness ==
    /\ endpoint = "analyze"
    /\ Len(boxes) = 1
    /\ grid.rows >= 2
    /\ CenterY(boxes[1]) = grid.h_lines[2]
    /\ detected_products[1].row = 0


\* C17: every box, also one partly or wholly outside the image, gets a row in
\* 0..rows-1 and a column in 0..columns-1, and every box processed has
\* exactly one entry in detected_products.
C17_EveryBoxPlacedInGrid ==
    /\ Len(detected_products) = Len(boxes)
    /\ \A n \in DOMAIN boxes :
          /\ detected_products[n].label = boxes[n].label
          /\ detected_products[n].row \in 0..(grid.rows - 1)
          /\ detected_products[n].column \in 0..(grid.columns - 1)

\* a box wholly below the image and one wholly left of it were placed, in
\* the last row and in column 0
C17_Witness ==
    /\ endpoint = "analyze"
    /\ Len(boxes) = 2
    /\ boxes[1].xyxy[2] > grid.height
    /\ detected_products[1].row = grid.rows - 1
    /\ boxes[2].xyxy[3] < 0
    /\ detected_products[2].column = 0


(***************************************************************************)
(* Claims about the product name normalizer                                *)
(***************************************************************************)
\* C18: every spelling of {coca cola, coke, coca-cola, cocacola}, in any
\* letter case, with surrounding whitespace, with '-' or '_' for the inner
\* space, is mapped to "coca cola"; every such spelling of {empty shelf,
\* empty space, empty, emptyspace} to "empty"; empty input to "empty"; any
\* other label to its lowercased, trimmed form with '-' and '_' replaced by
\* spaces.
C18_NormalizerCanonicalForms ==
    name_result.status = "returned" =>
        /\ name_arg \in ColaNames => name_result.value = s_coca_cola
        /\ name_arg \in EmptyNames => name_result.value = s_empty
        /\ name_arg = <<>> => name_result.value = s_empty
        /\ name_arg \in OtherNames =>
              name_result.value = replace(replace(strip(lower(name_arg)), "-", " "), "_", " ")

\* "  COCA_COLA\n" was normalized to "coca cola"
C18_Witness ==
    /\ name_result.status = "returned"
    /\ name_arg = <<" ", " ">> \o upper(w_coca \o <<"_">> \o w_cola) \o <<"\n">>
    /\ name_result.value = s_coca_cola


(***************************************************************************)
(* C19: check_compliance never writes.  Once either copy has returned or   *)
(* raised, the detection list it was handed holds the same dictionaries    *)
(* with the same values, the Planogram object is as it was, and the        *)
(* planogram's file still holds the document the planogram was loaded from.*)
(***************************************************************************)
ComplianceCalled == impl # "none"

C19_CheckComplianceNeverWrites ==
    ComplianceCalled =>
        /\ after_call.detected_products = detected_products
        /\ after_call.planogram = planogram
        /\ storage = json_dump(planogram)

\* two products detected in one cell: the second is added to the first one's entry
C19_Witness ==
    /\ impl = "legacy" /\ Returned
    /\ Len(detected_products) = 2
    /\ WellFormed(detected_products[1]) /\ WellFormed(detected_products[2])
    /\ DetectionCell(detected_products[1]) = DetectionCell(detected_products[2])
    /\ ~is_empty_label(detected_products[1].label)
    /\ ~is_empty_label(detected_products[2].label)
    /\ after_call.detected_products = detected_products


(***************************************************************************)
(* C20: an /analyze request for a stored planogram that runs while         *)
(* update_planogram is called for the same planogram answers with the      *)
(* compliance result computed against the version stored before the update *)
(* or against the version stored after it; it never answers without a      *)
(* compliance result.                                                      *)
(***************************************************************************)
Responded == request.pc = "responded"

StoredBefore == planogram
StoredAfter  == updated(planogram.id, update.planogram_update)

C20_AnalyzeSeesCompleteVersion ==
    Responded =>
        \/ request.compliance_result = check_compliance(StoredBefore, detected_products)
        \/ request.compliance_result = check_compliance(StoredAfter, detected_products)


(***************************************************************************)
(* C21: for the same normalized image and the same separator candidates,   *)
(* the grid detect_shelf_layout gives /analyze has the rows, columns,      *)
(* h_lines and v_lines of the grid /detect-grid reports.                   *)
(***************************************************************************)
\* what /detect-grid reports for the normalized image /analyze worked on
DetectGridReport ==
    LET n == analyze_normalized_size(image.original_width, image.original_height)
    IN  detect_grid(n.width, n.height,
                    found_separators(image.shelf_marks, n.height),
                    found_separators(image.product_marks, n.width))

SameGrid(g1, g2) ==
    /\ g1.rows = g2.rows /\ g1.columns = g2.columns
    /\ g1.h_lines = g2.h_lines /\ g1.v_lines = g2.v_lines

C21_AnalyzeGridIsDetectGridGrid ==
    (endpoint = "analyze" /\ GridReported) => SameGrid(grid, DetectGridReport)


(***************************************************************************)
(* C22: ImageService.detect_grid (image_service.py) never reports a        *)
(* computer_vision grid with rows > 6, with columns > 8, with one row of   *)
(* at most two columns or with one column of at most two rows.             *)
(***************************************************************************)
FailsFullValidation(rows, columns) ==
    \/ rows > 6 \/ columns > 8
    \/ (rows = 1 /\ columns <= 2)
    \/ (columns = 1 /\ rows <= 2)

C22_ServiceDetectGridValidates ==
    (endpoint = "service_detect_grid" /\ GridReported
        /\ grid.detection_method = "computer_vision")
        => ~FailsFullValidation(grid.rows, grid.columns)


(***************************************************************************)
(* C23: when check_compliance raises while /analyze handles a decodable    *)
(* upload with the id of a stored planogram, the answer is still 200 with  *)
(* the detected products and a null compliance_result.                     *)
(***************************************************************************)
\* the check_compliance copy each handler calls, on this request's arguments
HandlerCheck ==
    IF request.handler = "main" THEN check_compliance(planogram, detected_products)
    ELSE IF request.handler = "image_service"
    THEN check_compliance_app(planogram, detected_products)
    ELSE check_compliance_domain(as_domain_planogram(planogram), detected_products)

ComplianceRaised ==
    /\ request.pc = "responded"
    /\ request.decodable /\ request.planogram_id = "known"
    /\ HandlerCheck.status = "raised"

C23_ComplianceErrorKeepsResponse ==
    ComplianceRaised =>
        /\ request.response.status_code = 200
        /\ request.response.detected_products = detected_products
        /\ request.response.compliance_result = Null


(***************************************************************************)
(* C24: an upload that cannot be decoded as an image is answered by        *)
(* /analyze with status 400 and detail "Invalid image file.".              *)
(***************************************************************************)
UndecodableAnswered == request.pc = "responded" /\ ~request.decodable

C24_UndecodableUploadGives400 ==
    UndecodableAnswered =>
        /\ request.response.status_code = 400
        /\ request.response.detail = <<"Invalid image file.">>


(***************************************************************************)
(* C25: however often ProductService is constructed over one storage       *)
(* directory, the store lists at most one product for each default name    *)
(* (Coca-Cola, Sprite, Fanta).                                             *)
(***************************************************************************)
ProductsNamed(product_name) == {f \in list_products(products_dir) : f.name = product_name}

C25_DefaultProductsLoadedOnce ==
    \A i \in DOMAIN default_products :
        Cardinality(ProductsNamed(default_products[i])) <= 1


(***************************************************************************)
(* C26: in each of the three check_compliance copies every declared        *)
(* section yields exactly one outcome: correct_placements plus the number  *)
(* of issues equals total_positions, also when a (row, column) is declared *)
(* by more than one section.                                               *)
(***************************************************************************)
C26_OneOutcomePerSection ==
    Returned =>
        result.correct_placements + Len(result.issues) = result.total_positions


(***************************************************************************)
(* C27: the result does not depend on the order of the detection list.     *)
(* Whenever a copy returns for a list and for a permutation of it, both    *)
(* results have the same correct_placements, the same score and the same   *)
(* issue types at the same positions.                                      *)
(***************************************************************************)
Reorderings(s) ==
    { [i \in DOMAIN s |-> s[f[i]]] :
        f \in {g \in [DOMAIN s -> DOMAIN s] : \A i, j \in DOMAIN s : g[i] = g[j] => i = j} }

\* the copy that produced the result, run on another detection list
SameCopyOn(dets) ==
    IF impl = "legacy" THEN check_compliance(planogram, dets)
    ELSE IF impl = "app" THEN check_compliance_app(planogram, dets)
    ELSE check_compliance_domain(as_domain_planogram(planogram), dets)

IssueTypes(r) ==
    [k \in DOMAIN r.issues |->
        <<r.issues[k].row, r.issues[k].column, r.issues[k].issue_type>>]

SameVerdict(r1, r2) ==
    /\ r1.correct_placements = r2.correct_placements
    /\ r1.compliance_score = r2.compliance_score
    /\ IssueTypes(r1) = IssueTypes(r2)

C27_DetectionOrderIrrelevant ==
    Returned =>
        \A dets \in Reorderings(detected_products) :
            SameCopyOn(dets).status = "returned" => SameVerdict(result, SameCopyOn(dets))


(***************************************************************************)
(* C28: _normalize_product_name is idempotent: normalizing what it         *)
(* returned gives the same string again.                                   *)
(***************************************************************************)
C28_NormalizerIdempotent ==
    name_result.status = "returned" =>
        _normalize_product_name(name_result.value) = name_result.value


(***************************************************************************)
(* C29: in every grid accepted on the structural path (main.py /analyze    *)
(* and /detect-grid, image.py detect_grid) adjacent h_lines are at least   *)
(* 0.15 * height apart and adjacent v_lines at least 0.08 * width apart,   *)
(* the cells at the image edges included.                                  *)
(***************************************************************************)
StructuralHandlers == {"analyze", "detect_grid", "app_analyze"}

StructuralGridAccepted ==
    /\ GridReported /\ endpoint \in StructuralHandlers
    /\ grid.detection_method = "computer_vision"

\* every pair of adjacent lines is at least min_distance (in hundredths) apart
SpacedAtLeast(lines, min_distance_x100) ==
    \A i \in 1..(Len(lines) - 1) : 100 * (lines[i + 1] - lines[i]) >= min_distance_x100

C29_EveryCellRespectsMinimumSpacing ==
    StructuralGridAccepted =>
        /\ SpacedAtLeast(grid.h_lines, 15 * grid.height)
        /\ SpacedAtLeast(grid.v_lines, 8 * grid.width)


(***************************************************************************)
(* C30: quantities never influence compliance.  The run gives the issues,  *)
(* correct_placements, score and is_compliant of the run in which every    *)
(* detection has quantity 1, a label occurs once per cell and every        *)
(* section has min_quantity = max_quantity = 1; so any two runs that       *)
(* differ only in those respects agree.                                    *)
(***************************************************************************)
\* the planogram with the default quantity range in every section
WithUnitRanges(pl) ==
    [pl EXCEPT !.shelves =
        [s \in DOMAIN pl.shelves |->
            [pl.shelves[s] EXCEPT !.sections =
                [k \in DOMAIN pl.shelves[s].sections |->
                    [pl.shelves[s].sections[k] EXCEPT !.min_quantity = 1,
                                                      !.max_quantity = 1]]]]]

\* detection i repeats the label of an earlier detection of its cell
RepeatsEarlier(dets, i) ==
    \E j \in 1..(i - 1) :
        /\ DetectionCell(dets[j]) = DetectionCell(dets[i])
        /\ dets[j].label = dets[i].label

\* the detections with quantity 1, each label once per cell, order kept
RECURSIVE WithUnitQuantities(_, _)
WithUnitQuantities(dets, i) ==
    IF i > Len(dets) THEN <<>>
    ELSE (IF RepeatsEarlier(dets, i) THEN <<>>
          ELSE <<[dets[i] EXCEPT !.quantity = 1]>>)
         \o WithUnitQuantities(dets, i + 1)

UnitRun ==
    check_compliance(WithUnitRanges(planogram), WithUnitQuantities(detected_products, 1))

C30_QuantitiesNeverInfluenceCompliance ==
    (Returned /\ impl = "legacy") =>
        /\ UnitRun.status = "returned"
        /\ result.issues = UnitRun.issues
        /\ result.correct_placements = UnitRun.correct_placements
        /\ result.compliance_score = UnitRun.compliance_score
        /\ result.is_compliant = UnitRun.is_compliant

\* two "Coke" detections of quantity 3 in a cell whose section allows 2..4
\* were judged a correct placement
C30_Witness ==
    /\ Returned /\ impl = "legacy"
    /\ Len(detected_products) = 2
    /\ detected_products[1] = detected_products[2]
    /\ detected_products[1].label = L_Coke /\ detected_products[1].quantity = 3
    /\ Len(planogram.shelves) = 1
    /\ planogram.shelves[1].sections[1].min_quantity = 2
    /\ result.correct_placements = 1
    /\ WithUnitQuantities(detected_products, 1) # detected_products

====
